---- MODULE Spec2Model ----
(***************************************************************************)
(* Round-resolution engine of the social-deduction game: the shared        *)
(* game-state document (game_states row), every participant's local        *)
(* replica (React state of App), the submission handlers, the host's phase *)
(* transitions and the vote resolver processVotingResults.                 *)
(***************************************************************************)
EXTENDS Integers, Sequences, FiniteSets, TLC

\* ------------------------------------------------------------------ bounds
\* Submissions (answers or votes) one participant may start in one phase.
MaxSubmits == 2
\* Writes to the game_states row in one behaviour of the room specification
\* that runs from the lobby to the opening of the vote.
MaxWrites == 7
\* Writes to the game_states row in one behaviour of the room specification
\* of the voting phase.
MaxVoteWrites == 4
\* Vote resolutions in one behaviour of the five-player resolver specification.
MaxRounds == 2
\* Vote resolutions in one behaviour of the seven-player resolver specification.
MaxRounds7 == 4
\* Ballots one voter chooses among in one voting round of the resolver
\* specifications, and role assignments drawn for one game.
MaxShift == 2

\* ------------------------------------------------------------ participants
\* The room of the synchronisation specifications: the host, a guest, a bot.
Host == "h"
Room == <<"h", "a", "p2">>
\* The rooms of the resolver specifications: the host playing with bots.
Room3 == <<"h", "p2", "p3">>
Room4 == <<"h", "p2", "p3", "p4">>
Room5 == <<"h", "p2", "p3", "p4", "p5">>
Room7 == <<"h", "p2", "p3", "p4", "p5", "p6", "p7">>
Answers == {"x"}

VARIABLES
  roster,         \* players of the room, in join order (gameState.players ids)
  db,             \* the game_states row: <<>> before the first save, else <<state>>
  log,            \* every snapshot the row has held, in write order (realtime feed)
  gameState,      \* gameState[p]: participant p's React state
  currentScreen,  \* currentScreen[p]: participant p's displayed screen
  pending,        \* pending[p]: the suspended async handler of participant p
  applied,        \* applied[p]: index in log of the newest snapshot p has applied
  submits,        \* submits[p]: submissions p has started in the current phase
  rounds,         \* vote resolutions run so far
  last            \* what the last step did (observation of the step taken)

vars == <<roster, db, log, gameState, currentScreen, pending, applied, submits,
          rounds, last>>

\* ----------------------------------------------------------------- helpers
SeqToSet(s) == {s[i] : i \in 1..Len(s)}

Includes(s, x) == \E i \in 1..Len(s) : s[i] = x

Min(a, b) == IF a < b THEN a ELSE b

Max(a, b) == IF a > b THEN a ELSE b

\* Array.prototype.slice(0, n)
Take(s, n) == SubSeq(s, 1, Min(Max(n, 0), Len(s)))

\* Array.prototype.slice(n)
Drop(s, n) == SubSeq(s, Min(Max(n, 0), Len(s)) + 1, Len(s))

\* {} : the empty JavaScript object used as a map
EmptyMap == [k \in {} |-> {}]

\* the spread written the other way round, {...b, ...a}: the entries already
\* in a win over those of b
SpreadKeepFirst(a, b) ==
  [k \in (DOMAIN a) \cup (DOMAIN b) |-> IF k \in DOMAIN a THEN a[k] ELSE b[k]]

\* {...a, ...b} for two maps
Spread(a, b) ==
  [k \in (DOMAIN a) \cup (DOMAIN b) |-> IF k \in DOMAIN b THEN b[k] ELSE a[k]]

\* Array.from(new Set(ids)): the first occurrence of every id, in order
RECURSIVE uniqueIds(_)
uniqueIdsKeepDuplicates(ids) == ids

uniqueIds(ids) ==
  IF ids = <<>> THEN <<>>
  ELSE LET front == uniqueIds(SubSeq(ids, 1, Len(ids) - 1))
           x == ids[Len(ids)]
       IN IF Includes(front, x) THEN front ELSE Append(front, x)

\* entries.sort(([, a], [, b]) => b - a): stable, descending by vote count
RECURSIVE SortLevels(_, _, _)
SortLevels(keys, cnt, c) ==
  IF c < 0 THEN <<>>
  ELSE SelectSeq(keys, LAMBDA k : cnt[k] = c) \o SortLevels(keys, cnt, c - 1)

SortByVotes(keys, cnt) == SortLevels(keys, cnt, Len(roster))

\* entries.filter(([, votes]) => votes === v) and (votes > v), as id lists
WithVotes(sorted, cnt, v) == SelectSeq(sorted, LAMBDA k : cnt[k] = v)

\* the same filter written with >= : the tied candidates join the cohort
AboveVotesOrTied(sorted, cnt, v) == SelectSeq(sorted, LAMBDA k : cnt[k] >= v)

AboveVotes(sorted, cnt, v) == SelectSeq(sorted, LAMBDA k : cnt[k] > v)

\* players.map(p => ids.includes(p.id) ? {...p, isEliminated: true} : p)
MarkEliminated(players, ids) ==
  [p \in DOMAIN players |-> IF Includes(ids, p) THEN TRUE ELSE players[p]]

\* ------------------------------------------------------- winner determiner
\* determineWinner of utils/gameLogic: an eliminated jester wins alone, else
\* the impostors win while one of them is not eliminated, else the innocents.
WithRole(roles, r) == {p \in DOMAIN roles : roles[p] = r}

determineWinner(gs, eliminated) ==
  LET roles == gs.playerRoles
      out == SeqToSet(eliminated)
  IN IF WithRole(roles, "jester") \cap out # {}
       THEN [winners |-> WithRole(roles, "jester") \cap out, winnerType |-> "jester"]
     ELSE IF WithRole(roles, "impostor") \ out # {}
       THEN [winners |-> WithRole(roles, "impostor"), winnerType |-> "impostors"]
     ELSE [winners |-> WithRole(roles, "innocent"), winnerType |-> "innocents"]

\* ------------------------------------------------------------ vote resolver
\* What one call of processVotingResults does: the state handed to
\* setGameState and the screen handed to setCurrentScreen ("none": no call).
NoChange(prev) == [changed |-> FALSE, state |-> prev, screen |-> "none"]

Changed(st, scr) == [changed |-> TRUE, state |-> st, screen |-> scr]

\* votingUtils.ts 52-69: votes for tied players, cast by non-eliminated voters
TieBreakerVoteCounts(allVotes, gs) ==
  [t \in SeqToSet(gs.tiedPlayers) |->
     Cardinality({v \in DOMAIN allVotes :
                    /\ ~Includes(gs.eliminatedPlayers, v)
                    /\ t \in allVotes[v]})]

\* votingUtils.ts 204-221: votes for every non-eliminated player
VoteCounts(allVotes, gs) ==
  [k \in {p \in SeqToSet(roster) : ~Includes(gs.eliminatedPlayers, p)} |->
     Cardinality({v \in DOMAIN allVotes : k \in allVotes[v]})]

\* votingUtils.ts 151-163: the cohort left at the threshold is eliminated
\* whole when it fits the slots still needed, dropped when none is needed
SplitAbsorb(gs, newEliminatedPlayers, nextTieCandidates) ==
  IF nextTieCandidates = <<>>
    THEN [newEliminatedPlayers |-> newEliminatedPlayers, nextTieCandidates |-> <<>>]
  ELSE IF Max(gs.impostorCount - Len(newEliminatedPlayers), 0) <= 0
    THEN [newEliminatedPlayers |-> newEliminatedPlayers, nextTieCandidates |-> <<>>]
  ELSE IF Len(nextTieCandidates) <= Max(gs.impostorCount - Len(newEliminatedPlayers), 0)
    THEN [newEliminatedPlayers |-> uniqueIds(newEliminatedPlayers \o nextTieCandidates),
          nextTieCandidates |-> <<>>]
  ELSE [newEliminatedPlayers |-> newEliminatedPlayers,
        nextTieCandidates |-> nextTieCandidates]

SplitFinish(gs, eliminatedFromTieBreaker, nextTieCandidates) ==
  SplitAbsorb(gs, uniqueIds(gs.eliminatedPlayers \o eliminatedFromTieBreaker),
              nextTieCandidates)

\* votingUtils.ts 137-148
SplitCohorts(gs, slotsRemaining, playersAboveThreshold, playersAtThreshold) ==
  IF slotsRemaining > 0 /\ Len(playersAtThreshold) <= slotsRemaining
    THEN SplitFinish(gs, playersAboveThreshold \o playersAtThreshold, <<>>)
  ELSE IF slotsRemaining > 0
    THEN SplitFinish(gs, playersAboveThreshold, playersAtThreshold)
  ELSE SplitFinish(gs, playersAboveThreshold, <<>>)

\* votingUtils.ts 131-135
SplitThreshold(sorted, cnt, gs, eliminationSlots, thresholdVotes) ==
  SplitCohorts(gs, eliminationSlots - Len(AboveVotes(sorted, cnt, thresholdVotes)),
               AboveVotes(sorted, cnt, thresholdVotes),
               WithVotes(sorted, cnt, thresholdVotes))

SplitSlots(sorted, cnt, gs, eliminationSlots) ==
  IF eliminationSlots > 0 /\ Len(sorted) > 0
    THEN SplitThreshold(sorted, cnt, gs, eliminationSlots,
                        cnt[sorted[Min(Len(sorted) - 1, eliminationSlots - 1) + 1]])
  ELSE SplitFinish(gs, <<>>, <<>>)

\* votingUtils.ts 124-163: who the tie-breaker eliminates and who stays tied
ThresholdSplit(sorted, cnt, gs) ==
  SplitSlots(sorted, cnt, gs, Max(gs.impostorCount - Len(gs.eliminatedPlayers), 0))

\* votingUtils.ts 78-102 and 185-201: the tie-breaker ends the resolution
TieBreakerEnd(prev, newTieBreakerVotes, newEliminatedPlayers, updatedPlayers, w) ==
  Changed([prev EXCEPT !.phase = "voteResults",
                       !.currentScreen = "voteResults",
                       !.players = updatedPlayers,
                       !.eliminatedPlayers = newEliminatedPlayers,
                       !.votes = EmptyMap,
                       !.tieBreakerVotes = newTieBreakerVotes,
                       !.winners = w.winners,
                       !.winnerType = w.winnerType,
                       !.isTieVote = FALSE,
                       !.tiedPlayers = <<>>], "voteResults")

\* votingUtils.ts 165-201
TieBreakerSplit(gs, prev, newTieBreakerVotes, newEliminatedPlayers, nextTieCandidates) ==
  IF nextTieCandidates # <<>>
    THEN Changed([prev EXCEPT
                    !.players = MarkEliminated(gs.players, newEliminatedPlayers),
                    !.eliminatedPlayers = uniqueIds(newEliminatedPlayers),
                    !.votes = EmptyMap,
                    !.tieBreakerVotes = newTieBreakerVotes,
                    !.isTieVote = TRUE,
                    !.tiedPlayers = nextTieCandidates,
                    !.currentScreen = "voting"], "voting")
  ELSE TieBreakerEnd(prev, newTieBreakerVotes, uniqueIds(newEliminatedPlayers),
                     MarkEliminated(gs.players, newEliminatedPlayers),
                     determineWinner(gs, newEliminatedPlayers))

TieBreakerApply(gs, prev, newTieBreakerVotes, split) ==
  TieBreakerSplit(gs, prev, newTieBreakerVotes,
                  split.newEliminatedPlayers, split.nextTieCandidates)

\* the further tie that reopens the vote to every player not yet eliminated
TieBreakerTopReopened(gs, prev, newTieBreakerVotes, sorted, cnt, playersWithHighestVotes) ==
  IF Len(playersWithHighestVotes) > 1
    THEN Changed([prev EXCEPT !.isTieVote = TRUE,
                              !.tiedPlayers =
                                SelectSeq(roster, LAMBDA p : ~Includes(gs.eliminatedPlayers, p)),
                              !.votes = EmptyMap,
                              !.tieBreakerVotes = newTieBreakerVotes,
                              !.currentScreen = "voting"], "voting")
  ELSE TieBreakerApply(gs, prev, newTieBreakerVotes, ThresholdSplit(sorted, cnt, gs))

\* votingUtils.ts 71-122
TieBreakerTop(gs, prev, newTieBreakerVotes, sorted, cnt, playersWithHighestVotes) ==
  IF Len(playersWithHighestVotes) > 1
    THEN Changed([prev EXCEPT !.isTieVote = TRUE,
                              !.tiedPlayers = playersWithHighestVotes,
                              !.votes = EmptyMap,
                              !.tieBreakerVotes = newTieBreakerVotes,
                              !.currentScreen = "voting"], "voting")
  ELSE TieBreakerApply(gs, prev, newTieBreakerVotes, ThresholdSplit(sorted, cnt, gs))

TieBreakerSorted(gs, prev, newTieBreakerVotes, sorted, cnt) ==
  IF Len(sorted) = 0
    THEN TieBreakerEnd(prev, newTieBreakerVotes, gs.eliminatedPlayers, prev.players,
                       determineWinner(gs, gs.eliminatedPlayers))
  ELSE TieBreakerTop(gs, prev, newTieBreakerVotes, sorted, cnt,
                     WithVotes(sorted, cnt, cnt[sorted[1]]))

TieBreakerCounted(allVotes, gs, prev, cnt) ==
  TieBreakerSorted(gs, prev, Append(gs.tieBreakerVotes, allVotes),
                   SortByVotes(uniqueIds(gs.tiedPlayers), cnt), cnt)

\* the tie-breaker round that tallies over every non-eliminated player
TieBreakerRoundOverAll(allVotes, gs, prev) ==
  TieBreakerSorted(gs, prev, Append(gs.tieBreakerVotes, allVotes),
                   SortByVotes(SelectSeq(roster, LAMBDA p : ~Includes(gs.eliminatedPlayers, p)),
                               VoteCounts(allVotes, gs)),
                   VoteCounts(allVotes, gs))

\* votingUtils.ts 50-202: a tie-breaker round of the standard mode
TieBreakerRound(allVotes, gs, prev) ==
  TieBreakerCounted(allVotes, gs, prev, TieBreakerVoteCounts(allVotes, gs))

\* votingUtils.ts 345-398: the tie is declared, or the budget is already met
InitialTieApply(allVotes, gs, tied, finalEliminatedPlayers, w, ended) ==
  IF gs.impostorCount - Len(finalEliminatedPlayers) <= 0
    THEN Changed([gs EXCEPT !.phase = ended,
                            !.currentScreen = ended,
                            !.votes = allVotes,
                            !.eliminatedPlayers = finalEliminatedPlayers,
                            !.winners = w.winners,
                            !.winnerType = w.winnerType,
                            !.isTieVote = FALSE,
                            !.tiedPlayers = <<>>], ended)
  ELSE Changed([gs EXCEPT !.eliminatedPlayers = finalEliminatedPlayers,
                          !.phase = "voting",
                          !.currentScreen = "voting",
                          !.isTieVote = TRUE,
                          !.tiedPlayers = tied,
                          !.votes = EmptyMap,
                          !.originalVotes = <<allVotes>>], "voting")

InitialTieWinner(allVotes, gs, tied, finalEliminatedPlayers, w) ==
  InitialTieApply(allVotes, gs, tied, finalEliminatedPlayers, w,
                  IF w.winnerType # "undefined" THEN "results" ELSE "voteResults")

InitialTieCohort(allVotes, gs, tied, finalEliminatedPlayers) ==
  InitialTieWinner(allVotes, gs, tied, finalEliminatedPlayers,
                   determineWinner(gs, finalEliminatedPlayers))

\* the initial tie whose cohort keeps the players above the N-th position
InitialTieKeepingTop(allVotes, gs, sorted, cnt, nthPlayerVotes) ==
  InitialTieCohort(allVotes, gs, AboveVotesOrTied(sorted, cnt, nthPlayerVotes),
                   gs.eliminatedPlayers
                     \o AboveVotes(Take(sorted, gs.impostorCount), cnt, nthPlayerVotes))

\* votingUtils.ts 337-398: a tie at the N-th position of the initial vote
InitialTie(allVotes, gs, sorted, cnt, nthPlayerVotes) ==
  InitialTieCohort(allVotes, gs, WithVotes(sorted, cnt, nthPlayerVotes),
                   gs.eliminatedPlayers
                     \o AboveVotes(Take(sorted, gs.impostorCount), cnt, nthPlayerVotes))

\* votingUtils.ts 399-457: no tie, the top N are eliminated
NoTieApply(allVotes, prev, newEliminatedPlayers, w) ==
  Changed([prev EXCEPT !.phase = "voteResults",
                       !.currentScreen = "voteResults",
                       !.players = MarkEliminated(prev.players, newEliminatedPlayers),
                       !.votes = allVotes,
                       !.originalVotes = <<allVotes>>,
                       !.eliminatedPlayers = newEliminatedPlayers,
                       !.winners = w.winners,
                       !.winnerType = w.winnerType,
                       !.isTieVote = FALSE,
                       !.tiedPlayers = <<>>], "voteResults")

\* the elimination that takes the first ranked candidate only
NoTieEliminationOfFirst(allVotes, gs, prev, sorted) ==
  NoTieApply(allVotes, prev,
             prev.eliminatedPlayers \o Take(sorted, 1),
             determineWinner(gs, Take(sorted, 1)))

NoTieElimination(allVotes, gs, prev, sorted) ==
  NoTieApply(allVotes, prev,
             prev.eliminatedPlayers \o Take(sorted, gs.impostorCount),
             determineWinner(gs, Take(sorted, gs.impostorCount)))

\* votingUtils.ts 322-335: the N-th player's votes decide between the two
InitialNth(allVotes, gs, prev, sortedPlayers, cnt, nthPlayerVotes) ==
  IF WithVotes(Drop(sortedPlayers, gs.impostorCount), cnt, nthPlayerVotes) # <<>>
    THEN InitialTie(allVotes, gs, sortedPlayers, cnt, nthPlayerVotes)
  ELSE NoTieElimination(allVotes, gs, prev, sortedPlayers)

\* the initial resolution without the check of the candidates' number
InitialSortedUnchecked(allVotes, gs, prev, sortedPlayers, cnt) ==
  InitialNth(allVotes, gs, prev, sortedPlayers, cnt,
             IF gs.impostorCount >= 1 /\ gs.impostorCount <= Len(sortedPlayers)
               THEN cnt[sortedPlayers[gs.impostorCount]]
             ELSE -1)

\* votingUtils.ts 223-335
InitialSorted(allVotes, gs, prev, sortedPlayers, cnt) ==
  IF Len(sortedPlayers) < gs.impostorCount THEN NoChange(prev)
  ELSE InitialNth(allVotes, gs, prev, sortedPlayers, cnt,
                  IF gs.impostorCount >= 1 THEN cnt[sortedPlayers[gs.impostorCount]]
                  ELSE -1)

InitialCounted(allVotes, gs, prev, cnt) ==
  InitialSorted(allVotes, gs, prev,
                SortByVotes(SelectSeq(roster, LAMBDA p : ~Includes(gs.eliminatedPlayers, p)),
                            cnt),
                cnt)

\* utils/randomizeLogic processRandomizeVotes (RandomizeResolver): the
\* candidates sharing the highest count are tied when they are several, the
\* single one is eliminated.
RandomizeCandidates(gs) ==
  SelectSeq(roster, LAMBDA p : /\ ~Includes(gs.eliminatedPlayers, p)
                               /\ (gs.isTieVote => Includes(gs.tiedPlayers, p)))

RandomizeVoteCounts(gs, allVotes) ==
  [k \in SeqToSet(RandomizeCandidates(gs)) |->
     Cardinality({v \in DOMAIN allVotes : k \in allVotes[v]})]

RandomizeTop(sorted, cnt) ==
  IF sorted = <<>> THEN <<>> ELSE WithVotes(sorted, cnt, cnt[sorted[1]])

RandomizeOutcome(top) ==
  [isTie |-> Len(top) > 1,
   tiedPlayers |-> IF Len(top) > 1 THEN top ELSE <<>>,
   eliminatedPlayerIds |-> IF Len(top) = 1 THEN top ELSE <<>>]

RandomizeCounted(gs, cnt) ==
  RandomizeOutcome(RandomizeTop(SortByVotes(RandomizeCandidates(gs), cnt), cnt))

processRandomizeVotes(gs, allVotes) ==
  RandomizeCounted(gs, RandomizeVoteCounts(gs, allVotes))

\* utils/randomizeLogic checkRandomizeAutoEnd: after the elimination two or
\* fewer players remain, or no impostor remains, or no innocent remains.
RemainingAfter(gs, eliminatedPlayerIds) ==
  {p \in SeqToSet(roster) :
     ~Includes(gs.eliminatedPlayers \o eliminatedPlayerIds, p)}

checkRandomizeAutoEnd(gs, eliminatedPlayerIds) ==
  \/ Cardinality(RemainingAfter(gs, eliminatedPlayerIds)) <= 2
  \/ WithRole(gs.playerRoles, "impostor") \cap RemainingAfter(gs, eliminatedPlayerIds) = {}
  \/ RemainingAfter(gs, eliminatedPlayerIds) \subseteq WithRole(gs.playerRoles, "impostor")

\* utils/randomizeLogic determineRandomizeWinner (WinnerDeterminer): the
\* winners and the winner type, of the state it is handed
determineRandomizeWinner(gs) == determineWinner(gs, gs.eliminatedPlayers)

\* utils/randomizeLogic updateGameStateAfterRandomizeElimination: the
\* eliminated player joins the list, the round's tie is over
updateGameStateAfterRandomizeElimination(prev, eliminatedPlayerIds, allVotes) ==
  [prev EXCEPT !.phase = "voteResults",
               !.players = MarkEliminated(prev.players, eliminatedPlayerIds),
               !.eliminatedPlayers = uniqueIds(prev.eliminatedPlayers \o eliminatedPlayerIds),
               !.votes = allVotes,
               !.isTieVote = FALSE,
               !.tiedPlayers = <<>>]

\* votingUtils.ts 239: shouldContinue of processRandomizeVotes, set when the
\* round has eliminated a player
RandomizeShouldContinue(r) == r.eliminatedPlayerIds # <<>>

\* votingUtils.ts 245-264: the tie-breaker log of a tied randomize round
RandomizeTieLog(allVotes, gs) ==
  IF ~gs.isTieVote THEN <<>>
  ELSE IF \/ gs.originalVotes = <<allVotes>>
          \/ Includes(gs.tieBreakerVotes, allVotes)
    THEN gs.tieBreakerVotes
  ELSE Append(gs.tieBreakerVotes, allVotes)

\* the tied randomize round that eliminates the first of the tied players
RandomizeTieRoundEliminating(allVotes, gs, prev, tiedPlayers) ==
  Changed([prev EXCEPT !.phase = "voting",
                       !.currentScreen = "voting",
                       !.isTieVote = TRUE,
                       !.tiedPlayers = tiedPlayers,
                       !.eliminatedPlayers = prev.eliminatedPlayers \o Take(tiedPlayers, 1),
                       !.votes = EmptyMap], "voting")

\* votingUtils.ts 266-277: the randomize round is tied
RandomizeTieRound(allVotes, gs, prev, tiedPlayers) ==
  Changed([prev EXCEPT !.phase = "voting",
                       !.currentScreen = "voting",
                       !.isTieVote = TRUE,
                       !.tiedPlayers = tiedPlayers,
                       !.votes = EmptyMap,
                       !.originalVotes = IF prev.originalVotes # <<>>
                                           THEN prev.originalVotes ELSE <<allVotes>>,
                       !.tieBreakerVotes = RandomizeTieLog(allVotes, gs)], "voting")

\* votingUtils.ts 286-293: remainingPlayers
remainingPlayers(gs, eliminatedPlayerIds) ==
  {p \in RemainingAfter(gs, eliminatedPlayerIds) : gs.playerRoles[p] # "spectator"}

\* votingUtils.ts 296-316: {...prev, ...gameStateUpdates}
RandomizeUpdates(prev, u) ==
  [prev EXCEPT !.phase = u.phase,
               !.players = u.players,
               !.eliminatedPlayers = u.eliminatedPlayers,
               !.votes = u.votes,
               !.isTieVote = u.isTieVote,
               !.tiedPlayers = u.tiedPlayers]

\* votingUtils.ts 281-285: winners and winnerType of checkRandomizeAutoEnd
RandomizeAutoEndWinner(gs, eliminatedPlayerIds) ==
  determineWinner(gs, gs.eliminatedPlayers \o eliminatedPlayerIds)

\* votingUtils.ts 295-317: the game ends when one player or none remains
RandomizeEliminated(gs, updated, remaining, w) ==
  IF remaining <= 1
    THEN Changed([updated EXCEPT !.phase = "results",
                                 !.currentScreen = "results",
                                 !.winners = w.winners,
                                 !.winnerType = w.winnerType], "results")
  ELSE Changed([updated EXCEPT !.currentScreen = "voteResults"], "voteResults")

\* votingUtils.ts 236-320
RandomizeResolved(allVotes, gs, prev, r) ==
  IF r.isTie THEN RandomizeTieRound(allVotes, gs, prev, r.tiedPlayers)
  ELSE IF RandomizeShouldContinue(r) /\ r.eliminatedPlayerIds # <<>>
    THEN RandomizeEliminated(
           gs,
           RandomizeUpdates(prev, updateGameStateAfterRandomizeElimination(
                                    gs, r.eliminatedPlayerIds, allVotes)),
           Cardinality(remainingPlayers(gs, r.eliminatedPlayerIds)),
           RandomizeAutoEndWinner(gs, r.eliminatedPlayerIds))
  ELSE NoChange(prev)

RandomizeRound(allVotes, gs, prev) ==
  RandomizeResolved(allVotes, gs, prev, processRandomizeVotes(gs, allVotes))

\* votingUtils.ts 12-458, questions game.  gs is the gameState the caller
\* closed over, prev the state React hands to a functional update.
processVotingResults(allVotes, gs, prev) ==
  IF gs.isTieVote /\ ~gs.isRandomizeMode
    THEN TieBreakerRound(allVotes, gs, prev)
  ELSE IF gs.isRandomizeMode
    THEN RandomizeRound(allVotes, gs, prev)
  ELSE InitialCounted(allVotes, gs, prev, VoteCounts(allVotes, gs))

\* ------------------------------------------------------------- game state
BotIds == {"p2", "p3", "p4", "p5", "p6", "p7"}

Participants == {p \in SeqToSet(roster) : p \notin BotIds}

\* App.tsx useState<GameState> initial value, after handlePackSelect and the
\* joins: the lobby of a room whose players are the roster.
LobbyState(n) ==
  [phase |-> "lobby", currentScreen |-> "lobby",
   players |-> [p \in SeqToSet(roster) |-> FALSE],
   impostorCount |-> n, isRandomizeMode |-> FALSE, gameMode |-> "questions",
   playerRoles |-> EmptyMap, playerAnswers |-> EmptyMap,
   submittedAnswers |-> EmptyMap, votes |-> EmptyMap,
   eliminatedPlayers |-> <<>>, isTieVote |-> FALSE, tiedPlayers |-> <<>>,
   originalVotes |-> <<>>, tieBreakerVotes |-> <<>>,
   winners |-> {}, winnerType |-> "undefined"]

\* Lobby auto-adjust effect: the largest impostor count the lobby keeps
maxImpostors(playerCount) == Max(1, (playerCount - 1) \div 2)

\* initializeGame of utils/gameLogic (RoleAssigner): impostorCount players
\* become impostors, the others innocent; the questions phase opens.
RolesFrom(k, n) ==
  [p \in SeqToSet(roster) |->
     IF \E i \in k..(k + n - 1) : roster[i] = p THEN "impostor" ELSE "innocent"]

RoleChoices(n) == {RolesFrom(k, n) : k \in 1..Min(MaxShift, Len(roster) - n + 1)}

initializeGame(gs, roles) ==
  [gs EXCEPT !.phase = "questions", !.playerRoles = roles,
             !.players = [p \in DOMAIN gs.players |-> FALSE],
             !.playerAnswers = EmptyMap, !.submittedAnswers = EmptyMap,
             !.votes = EmptyMap, !.eliminatedPlayers = <<>>,
             !.isTieVote = FALSE, !.tiedPlayers = <<>>,
             !.originalVotes = <<>>, !.tieBreakerVotes = <<>>,
             !.winners = {}, !.winnerType = "undefined"]

\* ------------------------------------------------------------------ voting
\* DiscussionScreen votesNeeded
votesNeeded(gs) ==
  IF gs.gameMode = "words"
    THEN IF gs.isTieVote THEN 1 ELSE gs.impostorCount - Len(gs.eliminatedPlayers)
  ELSE IF gs.isRandomizeMode \/ gs.isTieVote THEN 1
  ELSE gs.impostorCount - Len(gs.eliminatedPlayers)

\* DiscussionScreen eligiblePlayers, without the voter, in roster order
eligiblePlayers(gs, voter) ==
  SelectSeq(roster, LAMBDA p :
    /\ p # voter
    /\ ~Includes(gs.eliminatedPlayers, p)
    /\ (gs.isTieVote => Includes(gs.tiedPlayers, p)))

\* The ballots a voter chooses among: votesNeeded consecutive eligible
\* players, counted cyclically from the voter's seat, for each start offset.
SeatOf(p) == CHOOSE i \in 1..Len(roster) : roster[i] = p

After(gs, voter) ==
  LET el == eligiblePlayers(gs, voter)
  IN SelectSeq(el, LAMBDA p : SeatOf(p) > SeatOf(voter))
       \o SelectSeq(el, LAMBDA p : SeatOf(p) < SeatOf(voter))

BallotAt(gs, voter, s) ==
  LET el == After(gs, voter)
      k == Min(votesNeeded(gs), Len(el))
  IN IF k <= 0 THEN {}
     ELSE {el[((s + i - 2) % Len(el)) + 1] : i \in 1..k}

Ballots(gs, voter) == {BallotAt(gs, voter, s) : s \in 1..MaxShift} \ {{}}

\* handleSubmitVotes 1330-1335: the caller's votes with the user's own added
allVotesOf(gs, p, userVotes) ==
  IF userVotes # {} THEN Spread(gs.votes, [k \in {p} |-> userVotes]) ELSE gs.votes

\* the validation that waits for no one
noPlayersWhoHaventVoted(gs, allVotes) == {}

\* handleSubmitVotes 1434-1461: the players still expected to vote
playersWhoHaventVoted(gs, allVotes) ==
  {p \in DOMAIN gs.players : ~gs.players[p] /\ p \notin DOMAIN allVotes}

\* handleSubmitVotes 1463-1646 (questions game): what runs once the vote is
\* saved.  gs and allVotes are the handler's closure, prev and prevScreen the
\* participant's state when the continuation runs.  save holds the state of
\* the immediate saveGameState call, if one is made.
Resolved(r, prevScreen) ==
  [state |-> r.state,
   screen |-> IF r.screen = "none" THEN prevScreen ELSE r.screen,
   save |-> IF r.screen = "voteResults" THEN <<r.state>> ELSE <<>>,
   resolved |-> r.changed]

\* handleSubmitVotes 1477-1504: the round is tied
RandomizeTie(prev, allVotes, tiedPlayers) ==
  [prev EXCEPT !.phase = "voting",
               !.isTieVote = TRUE,
               !.tiedPlayers = tiedPlayers,
               !.votes = EmptyMap,
               !.originalVotes = IF prev.originalVotes # <<>> THEN prev.originalVotes
                                 ELSE <<allVotes>>,
               !.tieBreakerVotes = IF prev.isTieVote
                                   THEN Append(prev.tieBreakerVotes, allVotes)
                                   ELSE <<>>,
               !.currentScreen = "voting"]

\* handleSubmitVotes 1508-1520: the game ends by itself
RandomizeAutoEnd(prev, winnerResult) ==
  [prev EXCEPT !.winners = winnerResult.winners,
               !.winnerType = winnerResult.winnerType,
               !.phase = "results",
               !.isTieVote = FALSE,
               !.currentScreen = "results"]

WordsOutcome(st, scr) == [state |-> st, screen |-> scr, save |-> <<>>, resolved |-> TRUE]

\* handleSubmitVotes 1472-1535: the words game in randomize mode.  The
\* states go to setGameState and transitionToScreen; no save is made here.
WordsRandomizeApply(gs, allVotes, prev, prevScreen, r) ==
  IF r.isTie
    THEN WordsOutcome(RandomizeTie(prev, allVotes, r.tiedPlayers), "voting")
  ELSE IF checkRandomizeAutoEnd(gs, r.eliminatedPlayerIds)
    THEN WordsOutcome(RandomizeAutoEnd(prev, determineRandomizeWinner(gs)), "results")
  ELSE IF r.eliminatedPlayerIds # <<>>
    THEN WordsOutcome(
           [updateGameStateAfterRandomizeElimination(prev, r.eliminatedPlayerIds, allVotes)
              EXCEPT !.currentScreen = "voteResults"], "voteResults")
  ELSE WordsOutcome(prev, prevScreen)

WordsRandomize(gs, allVotes, prev, prevScreen) ==
  WordsRandomizeApply(gs, allVotes, prev, prevScreen, processRandomizeVotes(gs, allVotes))

\* the continuation without the host-only guard
AfterVoteSaveByAnyone(p, gs, allVotes, prev, prevScreen) ==
  IF playersWhoHaventVoted(gs, allVotes) # {}
    THEN [state |-> prev, screen |-> prevScreen, save |-> <<>>, resolved |-> FALSE]
  ELSE Resolved(processVotingResults(allVotes, gs, prev), prevScreen)

AfterVoteSave(p, gs, allVotes, prev, prevScreen) ==
  IF playersWhoHaventVoted(gs, allVotes) # {} \/ p # Host
    THEN [state |-> prev, screen |-> prevScreen, save |-> <<>>, resolved |-> FALSE]
  ELSE IF gs.gameMode = "words" /\ gs.isRandomizeMode
    THEN WordsRandomize(gs, allVotes, prev, prevScreen)
  ELSE Resolved(processVotingResults(allVotes, gs, prev), prevScreen)

\* roomService.saveGameState / updateGameState landing on the row
RowAfter(row, writes) == IF writes = <<>> THEN row ELSE <<writes[Len(writes)]>>

NoPending == [kind |-> "none"]

Idle == [p \in Participants |-> NoPending]

\* ------------------------------------------------ resolver specifications
\* The host playing with bots: the voting phase has just opened.
VotingOpen(n, roles) ==
  [initializeGame(LobbyState(n), roles) EXCEPT
     !.phase = "voting", !.currentScreen = "voting",
     !.playerAnswers = [p \in SeqToSet(roster) |-> "x"],
     !.submittedAnswers = [p \in SeqToSet(roster) |-> TRUE]]

InitVotingWith(room, counts, choices) ==
  /\ roster = room
  /\ \E n \in counts : \E roles \in choices[n] :
       /\ gameState = [p \in Participants |-> VotingOpen(n, roles)]
       /\ db = <<VotingOpen(n, roles)>>
       /\ log = <<VotingOpen(n, roles)>>
  /\ currentScreen = [p \in Participants |-> "voting"]
  /\ pending = Idle
  /\ applied = [p \in Participants |-> 1]
  /\ submits = [p \in Participants |-> 0]
  /\ rounds = 0
  /\ last = [op |-> "init", by |-> Host, votes |-> EmptyMap]

InitVoting(room, counts) ==
  InitVotingWith(room, counts, [n \in counts |-> RoleChoices(n)])

RoundLimit == IF roster = Room7 THEN MaxRounds7 ELSE MaxRounds

InVotingRound(p) ==
  /\ currentScreen[p] = "voting"
  /\ gameState[p].phase = "voting"

\* DiscussionScreen handleStartVoting 212-245 -> handleBotVote 1302-1317:
\* every active bot casts its ballot in one timer callback of the host.  The
\* bots in odd seats share one start offset, the bots in even seats another.
BotsVote ==
  LET gs == gameState[Host]
      bots == {b \in DOMAIN gs.players : b \in BotIds /\ ~gs.players[b]
                                         /\ b \notin DOMAIN gs.votes
                                         /\ Ballots(gs, b) # {}}
  IN /\ InVotingRound(Host)
     /\ rounds < RoundLimit
     /\ bots # {}
     /\ \E shift \in [{0, 1} -> 1..MaxShift] :
          gameState' = [gameState EXCEPT ![Host].votes =
            Spread(gs.votes, [b \in bots |-> BallotAt(gs, b, shift[SeatOf(b) % 2])])]
     /\ last' = [op |-> "botVotes", by |-> Host, votes |-> EmptyMap]
     /\ UNCHANGED <<roster, db, log, currentScreen, pending, applied, submits, rounds>>

\* handleVoteSubmission 1651-1662 and handleSubmitVotes 1320-1647 run by the
\* host with no other writer in the room: merge, save, validate, resolve, save.
HostVoteLands(allVotes, saved, out) ==
  /\ gameState' = [gameState EXCEPT ![Host] = out.state]
  /\ currentScreen' = [currentScreen EXCEPT ![Host] = out.screen]
  /\ db' = RowAfter(<<saved>>, out.save)
  /\ log' = log \o <<saved>> \o out.save
  /\ rounds' = IF out.resolved THEN rounds + 1 ELSE rounds
  /\ last' = [op |-> IF out.resolved THEN "resolve" ELSE "vote", by |-> Host,
               votes |-> allVotes]
  /\ UNCHANGED <<roster, pending, applied, submits>>

\* handleSubmitVotes 1360-1366: stateToSave of the host
HostStateToSave(gs, screen, allVotes) ==
  [gs EXCEPT !.votes = allVotes, !.currentScreen = screen]

HostVoteMerged(gs, allVotes) ==
  HostVoteLands(allVotes,
                HostStateToSave(gs, currentScreen[Host], allVotes),
                AfterVoteSave(Host, gs, allVotes, [gs EXCEPT !.votes = allVotes],
                              currentScreen[Host]))

HostVotes(userVotes) ==
  HostVoteMerged(gameState[Host], allVotesOf(gameState[Host], Host, userVotes))

HostCastsVote ==
  /\ InVotingRound(Host)
  /\ rounds < RoundLimit
  /\ ~gameState[Host].players[Host]
  /\ Host \notin DOMAIN gameState[Host].votes
  /\ \E b \in Ballots(gameState[Host], Host) : HostVotes(b)

\* App.tsx 1884-1932: the host's effect that processes a completed round
AllHaveVoted(gs) ==
  /\ \A p \in DOMAIN gs.players : ~gs.players[p] => p \in DOMAIN gs.votes
  /\ \E p \in DOMAIN gs.players : ~gs.players[p]

VoteAutoProcess ==
  /\ \/ InVotingRound(Host)
     \/ currentScreen[Host] = "answers" /\ gameState[Host].phase = "voting"
  /\ rounds < RoundLimit
  /\ AllHaveVoted(gameState[Host])
  /\ Host \in DOMAIN gameState[Host].votes
  /\ pending[Host] = NoPending
  /\ HostVotes({})

NextVoting == BotsVote \/ HostCastsVote \/ VoteAutoProcess

InitVote5 == InitVoting(Room5, {1, 2})

SpecVote == InitVote5 /\ [][NextVoting]_vars

InitVote7 == InitVoting(Room7, {3})

SpecVote7 == InitVote7 /\ [][NextVoting]_vars

\* The initial vote with every ballot a voter can cast: any votesNeeded of
\* the eligible players.
AnyBallots(gs, voter) ==
  {b \in SUBSET SeqToSet(eligiblePlayers(gs, voter)) :
     /\ b # {}
     /\ Cardinality(b) = Min(votesNeeded(gs), Len(eligiblePlayers(gs, voter)))}

BotsToVote(gs) ==
  {b \in DOMAIN gs.players : /\ b \in BotIds
                             /\ ~gs.players[b]
                             /\ b \notin DOMAIN gs.votes
                             /\ AnyBallots(gs, b) # {}}

BallotChoices(gs, bots) ==
  {f \in [bots -> UNION {AnyBallots(gs, b) : b \in bots}] :
     \A b \in bots : f[b] \in AnyBallots(gs, b)}

BotsVoteAny ==
  /\ InVotingRound(Host)
  /\ rounds = 0
  /\ BotsToVote(gameState[Host]) # {}
  /\ \E f \in BallotChoices(gameState[Host], BotsToVote(gameState[Host])) :
       gameState' = [gameState EXCEPT ![Host].votes = Spread(gameState[Host].votes, f)]
  /\ last' = [op |-> "botVotes", by |-> Host, votes |-> EmptyMap]
  /\ UNCHANGED <<roster, db, log, currentScreen, pending, applied, submits, rounds>>

HostCastsAnyVote ==
  /\ InVotingRound(Host)
  /\ rounds = 0
  /\ ~gameState[Host].players[Host]
  /\ Host \notin DOMAIN gameState[Host].votes
  /\ \E b \in AnyBallots(gameState[Host], Host) : HostVotes(b)

NextTally == BotsVoteAny \/ HostCastsAnyVote \/ VoteAutoProcess

InitTally == InitVotingWith(Room5, {1, 2}, [n \in {1, 2} |-> {RolesFrom(1, n)}])

SpecTally == InitTally /\ [][NextTally]_vars

\* A tie-breaker round in which a ballot may name any non-eliminated player,
\* tied or not, after an initial vote that has declared a tie.
OpenBallots(gs, voter) ==
  {{c} : c \in {p \in SeqToSet(roster) : p # voter /\ ~Includes(gs.eliminatedPlayers, p)}}

OpenChoices(gs, bots) == [bots -> UNION {OpenBallots(gs, b) : b \in bots}]

InTieBreaker ==
  /\ InVotingRound(Host)
  /\ gameState[Host].isTieVote
  /\ rounds = 1

BotsVoteOpen ==
  /\ InTieBreaker
  /\ BotsToVote(gameState[Host]) # {}
  /\ \E f \in OpenChoices(gameState[Host], BotsToVote(gameState[Host])) :
       /\ \A b \in DOMAIN f : f[b] \in OpenBallots(gameState[Host], b)
       /\ gameState' = [gameState EXCEPT ![Host].votes = Spread(gameState[Host].votes, f)]
  /\ last' = [op |-> "botVotes", by |-> Host, votes |-> EmptyMap]
  /\ UNCHANGED <<roster, db, log, currentScreen, pending, applied, submits, rounds>>

HostCastsOpenVote ==
  /\ InTieBreaker
  /\ ~gameState[Host].players[Host]
  /\ Host \notin DOMAIN gameState[Host].votes
  /\ \E b \in OpenBallots(gameState[Host], Host) : HostVotes(b)

NextTie ==
  \/ rounds = 0 /\ BotsVote
  \/ rounds = 0 /\ HostCastsVote
  \/ BotsVoteOpen
  \/ HostCastsOpenVote
  \/ VoteAutoProcess

SpecTie == InitTally /\ [][NextTie]_vars

\* The words game in randomize mode: the host playing with four bots.
WordsVotingOpen(n, roles) ==
  [VotingOpen(n, roles) EXCEPT !.gameMode = "words", !.isRandomizeMode = TRUE,
                               !.playerAnswers = EmptyMap,
                               !.submittedAnswers = EmptyMap]

InitWords ==
  /\ roster = Room5
  /\ \E roles \in RoleChoices(1) :
       /\ gameState = [p \in Participants |-> WordsVotingOpen(1, roles)]
       /\ db = <<WordsVotingOpen(1, roles)>>
       /\ log = <<WordsVotingOpen(1, roles)>>
  /\ currentScreen = [p \in Participants |-> "voting"]
  /\ pending = Idle
  /\ applied = [p \in Participants |-> 1]
  /\ submits = [p \in Participants |-> 0]
  /\ rounds = 0
  /\ last = [op |-> "init", by |-> Host, votes |-> EmptyMap]

SpecWords == InitWords /\ [][NextVoting]_vars

\* The questions game in randomize mode: the host playing with two or three
\* bots, one impostor among them.
RandomizeVotingOpen(n, roles) ==
  [VotingOpen(n, roles) EXCEPT !.isRandomizeMode = TRUE]

InitRandomizeIn(room) ==
  /\ roster = room
  /\ \E roles \in {RolesFrom(k, 1) : k \in 1..Len(room)} :
       /\ gameState = [p \in Participants |-> RandomizeVotingOpen(1, roles)]
       /\ db = <<RandomizeVotingOpen(1, roles)>>
       /\ log = <<RandomizeVotingOpen(1, roles)>>
  /\ currentScreen = [p \in Participants |-> "voting"]
  /\ pending = Idle
  /\ applied = [p \in Participants |-> 1]
  /\ submits = [p \in Participants |-> 0]
  /\ rounds = 0
  /\ last = [op |-> "init", by |-> Host, votes |-> EmptyMap]

InitRandomize == InitRandomizeIn(Room3) \/ InitRandomizeIn(Room4)

SpecRandomize == InitRandomize /\ [][NextVoting]_vars

\* ------------------------------------------------------------- submissions
\* roomService.getGameState as the handlers use it: the stored state, or the
\* caller's own state when the row does not exist yet
latestState(row, gs) == IF row # <<>> THEN row[1] ELSE gs

\* handleAnswerSubmit 1187-1203: updatedGameState.  gs and screen are the
\* gameState and currentScreen the handler closed over.
AnswerMerged(latest, gs, screen, p, answer) ==
  [latest EXCEPT
     !.playerAnswers = Spread(latest.playerAnswers, [k \in {p} |-> answer]),
     !.submittedAnswers = Spread(latest.submittedAnswers, [k \in {p} |-> TRUE]),
     !.players = gs.players,
     !.phase = gs.phase,
     !.currentScreen = screen]

\* handleSubmitVotes 1330-1341: updatedGameState
VoteMerged(gs, p, userVotes) == [gs EXCEPT !.votes = allVotesOf(gs, p, userVotes)]

\* handleSubmitVotes 1379-1431: stateToSave of a non-host
GuestStateToSave(row, updatedGameState) ==
  IF row # <<>>
    THEN [row[1] EXCEPT !.votes = Spread(row[1].votes, updatedGameState.votes)]
  ELSE updatedGameState

\* onGameStateUpdate 268-302: the state a received snapshot leaves
onGameStateUpdate(prev, updatedState) ==
  IF updatedState.currentScreen # prev.currentScreen THEN updatedState
  ELSE IF prev # updatedState THEN updatedState
  ELSE prev

Step(op, p) == [op |-> op, by |-> p, votes |-> EmptyMap]

\* QuestionScreen handleSubmit 79-103 -> handleAnswerSubmit 1168-1251: the
\* player submits once per visit of the questions screen; the handler fetches
\* the stored state, merges the entry into it, replaces the local state and
\* issues the write, which lands later.
AnswerSubmitAs(p, updatedGameState) ==
  /\ gameState' = [gameState EXCEPT ![p] = updatedGameState]
  /\ pending' = [pending EXCEPT ![p] =
       [kind |-> "write", op |-> "answerLands", state |-> updatedGameState]]
  /\ submits' = [submits EXCEPT ![p] = 1]
  /\ last' = Step("answer", p)
  /\ UNCHANGED <<roster, db, log, currentScreen, applied, rounds>>

AnswerSubmit(p) ==
  /\ currentScreen[p] = "questions"
  /\ submits[p] = 0
  /\ pending[p] = NoPending
  /\ \E answer \in Answers :
       AnswerSubmitAs(p, AnswerMerged(latestState(db, gameState[p]), gameState[p],
                                      currentScreen[p], p, answer))

\* What the handler does once its write has landed: handleAnswerSubmit
\* returns, handleSubmitVotes goes on with 1434-1646, where a non-host
\* returns at 1463-1468.
AfterWrite(p, pd, prev, prevScreen) ==
  IF pd.op = "voteLands"
    THEN AfterVoteSave(p, pd.gs, pd.allVotes, prev, prevScreen)
  ELSE [state |-> prev, screen |-> prevScreen, save |-> <<>>, resolved |-> FALSE]

\* roomService.saveGameState 243-325 / updateGameState 332-372: the write of a
\* submission replaces the stored state, then the handler goes on.
WriteLandsAs(p, out) ==
  /\ db' = RowAfter(<<pending[p].state>>, out.save)
  /\ log' = log \o <<pending[p].state>> \o out.save
  /\ gameState' = [gameState EXCEPT ![p] = out.state]
  /\ currentScreen' = [currentScreen EXCEPT ![p] = out.screen]
  /\ rounds' = IF out.resolved THEN rounds + 1 ELSE rounds
  /\ pending' = [pending EXCEPT ![p] = NoPending]
  /\ last' = Step(IF out.resolved THEN "resolve" ELSE pending[p].op, p)
  /\ UNCHANGED <<roster, applied, submits>>

WriteLands(p) ==
  /\ pending[p].kind = "write"
  /\ WriteLandsAs(p, AfterWrite(p, pending[p], gameState[p], currentScreen[p]))

\* useSupabaseRoom 58-68 -> onGameStateUpdate, onScreenUpdate: the next
\* snapshot of the realtime feed reaches p, in write order.  A screen change
\* remounts the screen component, whose submitted flag starts false.
DeliverAs(p, updatedState) ==
  /\ gameState' = [gameState EXCEPT ![p] = onGameStateUpdate(@, updatedState)]
  /\ currentScreen' = [currentScreen EXCEPT ![p] = updatedState.currentScreen]
  /\ submits' = [submits EXCEPT ![p] =
                   IF updatedState.currentScreen = currentScreen[p] THEN @ ELSE 0]
  /\ applied' = [applied EXCEPT ![p] = @ + 1]
  /\ last' = Step("deliver", p)
  /\ UNCHANGED <<roster, db, log, pending, rounds>>

Deliver(p) ==
  /\ applied[p] < Len(log)
  /\ DeliverAs(p, log[applied[p] + 1])

\* A host transition: setGameState, setCurrentScreen and the immediate
\* saveGameState of the new state.
HostTransition(op, updatedState) ==
  /\ Len(log) <= MaxWrites
  /\ gameState' = [gameState EXCEPT ![Host] = updatedState]
  /\ currentScreen' = [currentScreen EXCEPT ![Host] = updatedState.currentScreen]
  /\ db' = <<updatedState>>
  /\ log' = Append(log, updatedState)
  /\ submits' = [submits EXCEPT ![Host] = 0]
  /\ last' = Step(op, Host)
  /\ UNCHANGED <<roster, pending, applied, rounds>>

\* handleStartGame 1086-1166
HostStartsGame ==
  /\ currentScreen[Host] = "lobby"
  /\ Len(roster) >= 3
  /\ \E roles \in RoleChoices(gameState[Host].impostorCount) :
       HostTransition("startGame",
                      [initializeGame(gameState[Host], roles) EXCEPT
                         !.currentScreen = "questions"])

\* App.tsx 982-1084: the host's effect that watches submittedAnswers
allPlayersSubmitted(gs) ==
  \A p \in DOMAIN gs.players :
    \/ p \in BotIds
    \/ p \in DOMAIN gs.submittedAnswers /\ gs.submittedAnswers[p]

\* the effect that takes every bot to have answered
noBotsWithoutAnswer(gs) == {}

\* 1013-1044: the bots that have no answer yet get one (generateBotAnswer)
botsWithoutAnswer(gs) ==
  {p \in DOMAIN gs.players : p \in BotIds /\ p \notin DOMAIN gs.submittedAnswers}

withBotAnswers(gs, bots, answer) ==
  [gs EXCEPT !.playerAnswers = Spread(gs.playerAnswers, [b \in bots |-> answer]),
             !.submittedAnswers = Spread(gs.submittedAnswers, [b \in bots |-> TRUE])]

HostAnswersComplete ==
  /\ currentScreen[Host] = "questions"
  /\ gameState[Host].phase = "questions"
  /\ allPlayersSubmitted(gameState[Host])
  /\ IF botsWithoutAnswer(gameState[Host]) # {}
       THEN \E answer \in Answers :
              HostTransition("botAnswers",
                             [withBotAnswers(gameState[Host],
                                             botsWithoutAnswer(gameState[Host]), answer)
                                EXCEPT !.currentScreen = currentScreen[Host]])
     ELSE HostTransition("roleReveal",
                         [gameState[Host] EXCEPT !.currentScreen = "roleReveal"])

\* handleRoleConfirmed 1833-1869 (questions game)
HostRoleConfirmed ==
  /\ currentScreen[Host] = "roleReveal"
  /\ HostTransition("answers", [gameState[Host] EXCEPT !.currentScreen = "answers"])

\* handleStartVotingPhase 712-748, offered to the host on the answers screen
HostStartsVotingPhase ==
  /\ currentScreen[Host] = "answers"
  /\ HostTransition("startVoting", [gameState[Host] EXCEPT !.phase = "voting",
                                                           !.currentScreen = "voting"])

\* handleVoteSubmission 1651-1662 -> handleSubmitVotes 1320-1431 of a
\* non-host: the vote is merged into the local state, the stored state is
\* fetched, the votes are merged into it and the write is issued.
Guests == Participants \ {Host}

VoteSubmitAs(p, updatedGameState) ==
  /\ gameState' = [gameState EXCEPT ![p] = updatedGameState]
  /\ pending' = [pending EXCEPT ![p] =
       [kind |-> "write", op |-> "voteLands",
        state |-> GuestStateToSave(db, updatedGameState),
        gs |-> gameState[p], allVotes |-> updatedGameState.votes]]
  /\ submits' = [submits EXCEPT ![p] = @ + 1]
  /\ last' = Step("vote", p)
  /\ UNCHANGED <<roster, db, log, currentScreen, applied, rounds>>

VoteSubmit(p) ==
  /\ InVotingRound(p)
  /\ submits[p] < MaxSubmits
  /\ pending[p] = NoPending
  /\ ~gameState[p].players[p]
  /\ \E b \in Ballots(gameState[p], p) :
       /\ p \in DOMAIN gameState[p].votes => gameState[p].votes[p] # b
       /\ VoteSubmitAs(p, VoteMerged(gameState[p], p, b))

\* ---------------------------------------------------- room specifications
\* The room from the lobby to the opening of the vote.
Init ==
  /\ roster = Room
  /\ gameState = [p \in Participants |-> LobbyState(1)]
  /\ currentScreen = [p \in Participants |-> "lobby"]
  /\ db = <<LobbyState(1)>>
  /\ log = <<LobbyState(1)>>
  /\ pending = Idle
  /\ applied = [p \in Participants |-> 1]
  /\ submits = [p \in Participants |-> 0]
  /\ rounds = 0
  /\ last = Step("init", Host)

Next ==
  \/ HostStartsGame
  \/ \E p \in Participants : AnswerSubmit(p)
  \/ \E p \in Participants : Len(log) <= MaxWrites /\ WriteLands(p)
  \/ \E p \in Participants : Deliver(p)
  \/ HostAnswersComplete
  \/ HostRoleConfirmed
  \/ HostStartsVotingPhase

Spec == Init /\ [][Next]_vars

\* handleForceSubmitAllAnswers 1257-1275: the bots without an answer get one;
\* no human player's entry is touched and nothing is saved
handleForceSubmitAllAnswers(gs, answer) ==
  withBotAnswers(gs, botsWithoutAnswer(gs), answer)

\* App.tsx 1872-1881: the effect arms the 5 s timeout on the questions screen
\* in the questions phase and clears it when either changes
AnswerTimerArmed(gs, screen) == screen = "questions" /\ gs.phase = "questions"

\* the expiry that runs the callback whether armed or not and moves on to the
\* role reveal
AnswerTimerExpiryAdvancing(gs, screen, answer) ==
  [state |-> [handleForceSubmitAllAnswers(gs, answer) EXCEPT !.currentScreen = "roleReveal"],
   screen |-> "roleReveal"]

\* 1874-1877: the callback, handleForceSubmitAllAnswers then the deprecated
\* handleAllAnswersSubmitted, which only logs; a cleared timeout runs nothing
AnswerTimerExpiry(gs, screen, answer) ==
  IF AnswerTimerArmed(gs, screen)
    THEN [state |-> handleForceSubmitAllAnswers(gs, answer), screen |-> screen]
  ELSE [state |-> gs, screen |-> screen]

\* The 5 s of the answer timer of participant p elapse.
AnswerTimerAs(p, out) ==
  /\ gameState' = [gameState EXCEPT ![p] = out.state]
  /\ currentScreen' = [currentScreen EXCEPT ![p] = out.screen]
  /\ last' = Step("answerTimer", p)
  /\ UNCHANGED <<roster, db, log, pending, applied, submits, rounds>>

AnswerTimer(p) ==
  /\ gameState[p].phase # "lobby"
  /\ \E answer \in Answers :
       AnswerTimerAs(p, AnswerTimerExpiry(gameState[p], currentScreen[p], answer))

NextTimer ==
  \/ Next
  \/ \E p \in Participants : AnswerTimer(p)

RoomHumans == {p \in SeqToSet(Room) : p \notin BotIds}

\* The timers expire, the writes land, the snapshots arrive and the host's
\* effects run; whether a player ever submits is up to the player.
TimerFairness ==
  /\ \A p \in RoomHumans : WF_vars(AnswerTimer(p))
  /\ \A p \in RoomHumans : WF_vars(WriteLands(p))
  /\ \A p \in RoomHumans : WF_vars(Deliver(p))
  /\ WF_vars(HostAnswersComplete)
  /\ WF_vars(HostRoleConfirmed)

SpecTimer == Init /\ [][NextTimer]_vars /\ TimerFairness

\* The room of three humans, the voting phase has just opened.
HostIsImpostor(n) == {RolesFrom(1, n)}

InitRoom == InitVotingWith(Room, {1}, [n \in {1} |-> HostIsImpostor(n)])

RoomWritable == Len(log) <= MaxVoteWrites

NextRoom ==
  \/ BotsVote
  \/ \E p \in Guests : VoteSubmit(p)
  \/ \E p \in Guests : RoomWritable /\ WriteLands(p)
  \/ \E p \in Participants : Deliver(p)
  \/ RoomWritable /\ HostCastsVote
  \/ RoomWritable /\ VoteAutoProcess

SpecRoom == InitRoom /\ [][NextRoom]_vars

\* The host's handleSubmitVotes with its await: the handler closes over the
\* host's gameState, replaces the local state (1337-1342), issues the save
\* (1360-1366) and is suspended until the save has landed.
HostSubmitBegins(gs, screen, allVotes, op) ==
  /\ gameState' = [gameState EXCEPT ![Host] = [gs EXCEPT !.votes = allVotes]]
  /\ pending' = [pending EXCEPT ![Host] =
       [kind |-> "save", op |-> "voteLands",
        state |-> HostStateToSave(gs, screen, allVotes),
        gs |-> gs, allVotes |-> allVotes]]
  /\ last' = Step(op, Host)
  /\ UNCHANGED <<roster, db, log, currentScreen, applied, submits, rounds>>

\* handleVoteSubmission 1651-1662: the host casts its own vote
HostVoteBegins ==
  /\ InVotingRound(Host)
  /\ pending[Host] = NoPending
  /\ ~gameState[Host].players[Host]
  /\ Host \notin DOMAIN gameState[Host].votes
  /\ \E b \in Ballots(gameState[Host], Host) :
       HostSubmitBegins(gameState[Host], currentScreen[Host],
                        allVotesOf(gameState[Host], Host, b), "vote")

\* App.tsx 1884-1932: the effect calls handleSubmitVotes() once all have voted
HostAutoBegins ==
  /\ InVotingRound(Host)
  /\ pending[Host] = NoPending
  /\ AllHaveVoted(gameState[Host])
  /\ Host \in DOMAIN gameState[Host].votes
  /\ HostSubmitBegins(gameState[Host], currentScreen[Host],
                      allVotesOf(gameState[Host], Host, {}), "autoProcess")

\* handleSubmitVotes 1434-1647 after the await: the save has landed; the
\* validation and the resolution run on the gameState and allVotes the
\* handler closed over, the functional updates on the host's current state.
HostResumesWith(allVotes, saved, out) ==
  /\ gameState' = [gameState EXCEPT ![Host] = out.state]
  /\ currentScreen' = [currentScreen EXCEPT ![Host] = out.screen]
  /\ db' = RowAfter(<<saved>>, out.save)
  /\ log' = log \o <<saved>> \o out.save
  /\ rounds' = IF out.resolved THEN rounds + 1 ELSE rounds
  /\ pending' = [pending EXCEPT ![Host] = NoPending]
  /\ last' = [op |-> IF out.resolved THEN "resolve" ELSE "voteLands", by |-> Host,
               votes |-> allVotes]
  /\ UNCHANGED <<roster, applied, submits>>

HostResumes ==
  /\ pending[Host].kind = "save"
  /\ HostResumesWith(pending[Host].allVotes, pending[Host].state,
                     AfterVoteSave(Host, pending[Host].gs, pending[Host].allVotes,
                                   gameState[Host], currentScreen[Host]))

NextHost ==
  \/ BotsVote
  \/ \E p \in Guests : VoteSubmit(p)
  \/ \E p \in Guests : RoomWritable /\ WriteLands(p)
  \/ \E p \in Participants : Deliver(p)
  \/ HostVoteBegins
  \/ HostAutoBegins
  \/ RoomWritable /\ HostResumes

SpecHost == InitRoom /\ [][NextHost]_vars

\* ------------------------------------------------ the host's debounced save
\* The host's refs are kept in pending[Host]: isSavingRef (321) and the
\* timeout of saveGameStateToSupabase (251-263) with the state it will save.
\* NoPending stands for isSavingRef false and no timeout.
HostRefs(isSaving, timer) ==
  IF ~isSaving /\ timer = <<>> THEN NoPending
  ELSE [kind |-> "refs", isSaving |-> isSaving, timer |-> timer]

isSavingRef(pd) == pd.kind = "refs" /\ pd.isSaving

gameStateUpdateTimeoutRef(pd) == IF pd.kind = "refs" THEN pd.timer ELSE <<>>

\* App.tsx 358-377: the change looks like a synced submission or vote
likelySyncUpdate(gs) ==
  \/ /\ gs.phase \in {"questions", "voting"}
     /\ DOMAIN gs.submittedAnswers # {}
     /\ Host \in DOMAIN gs.submittedAnswers
  \/ /\ gs.phase = "voting"
     /\ DOMAIN gs.votes # {}
     /\ Host \in DOMAIN gs.votes

\* App.tsx 324-390: the effect that runs when the host's gameState or
\* currentScreen has changed; a save replaces the timeout that was waiting.
\* The comparison with lastExplicitSaveRef (336-347) is left out: it only
\* suppresses saves.
debouncedSaveEffect(pd, gs, screen) ==
  IF isSavingRef(pd) \/ likelySyncUpdate(gs) THEN pd
  ELSE HostRefs(FALSE, <<[gs EXCEPT !.currentScreen = screen]>>)

\* handleSubmitVotes 1623: isSavingRef is set when the vote results are saved
RefsAfterVote(pd, out) ==
  IF out.save # <<>> THEN HostRefs(TRUE, gameStateUpdateTimeoutRef(pd))
  ELSE debouncedSaveEffect(pd, out.state, out.screen)

\* handleVoteSubmission and handleSubmitVotes of the host, as HostVoteLands,
\* followed by the effect
HostVoteLandsThenEffect(allVotes, saved, out) ==
  /\ gameState' = [gameState EXCEPT ![Host] = out.state]
  /\ currentScreen' = [currentScreen EXCEPT ![Host] = out.screen]
  /\ db' = RowAfter(<<saved>>, out.save)
  /\ log' = log \o <<saved>> \o out.save
  /\ rounds' = IF out.resolved THEN rounds + 1 ELSE rounds
  /\ pending' = [pending EXCEPT ![Host] = RefsAfterVote(@, out)]
  /\ last' = [op |-> IF out.resolved THEN "resolve" ELSE "vote", by |-> Host,
               votes |-> allVotes]
  /\ UNCHANGED <<roster, applied, submits>>

HostVotesThenEffect(gs, allVotes) ==
  HostVoteLandsThenEffect(allVotes,
                          HostStateToSave(gs, currentScreen[Host], allVotes),
                          AfterVoteSave(Host, gs, allVotes, [gs EXCEPT !.votes = allVotes],
                                        currentScreen[Host]))

HostCastsVoteThenEffect ==
  /\ InVotingRound(Host)
  /\ rounds < RoundLimit
  /\ ~gameState[Host].players[Host]
  /\ Host \notin DOMAIN gameState[Host].votes
  /\ \E b \in Ballots(gameState[Host], Host) :
       HostVotesThenEffect(gameState[Host], allVotesOf(gameState[Host], Host, b))

VoteAutoProcessThenEffect ==
  /\ InVotingRound(Host)
  /\ rounds < RoundLimit
  /\ AllHaveVoted(gameState[Host])
  /\ Host \in DOMAIN gameState[Host].votes
  /\ HostVotesThenEffect(gameState[Host], allVotesOf(gameState[Host], Host, {}))

\* useSupabaseRoom 58-68 -> onGameStateUpdate, onScreenUpdate on the host,
\* followed by the effect when the host's state or screen has changed
DeliverToHostAs(updatedState, newState) ==
  /\ gameState' = [gameState EXCEPT ![Host] = newState]
  /\ currentScreen' = [currentScreen EXCEPT ![Host] = updatedState.currentScreen]
  /\ submits' = [submits EXCEPT ![Host] =
                   IF updatedState.currentScreen = currentScreen[Host] THEN @ ELSE 0]
  /\ applied' = [applied EXCEPT ![Host] = @ + 1]
  /\ pending' = [pending EXCEPT ![Host] =
       IF newState = gameState[Host] /\ updatedState.currentScreen = currentScreen[Host]
         THEN @
       ELSE debouncedSaveEffect(@, newState, updatedState.currentScreen)]
  /\ last' = Step("deliver", Host)
  /\ UNCHANGED <<roster, db, log, rounds>>

DeliverToHost ==
  /\ applied[Host] < Len(log)
  /\ DeliverToHostAs(log[applied[Host] + 1],
                     onGameStateUpdate(gameState[Host], log[applied[Host] + 1]))

\* App.tsx 2190 (case voteResults): onFinishGame={() => setCurrentScreen('results')},
\* offered to the host by VoteResultsScreen 380-410 in the standard mode;
\* the effect follows.
onFinishGame ==
  /\ currentScreen[Host] = "voteResults"
  /\ ~gameState[Host].isRandomizeMode
  /\ currentScreen' = [currentScreen EXCEPT ![Host] = "results"]
  /\ pending' = [pending EXCEPT ![Host] = debouncedSaveEffect(@, gameState[Host], "results")]
  /\ last' = Step("finishGame", Host)
  /\ UNCHANGED <<roster, db, log, gameState, applied, submits, rounds>>

\* App.tsx 1632: setTimeout(() => { isSavingRef.current = false; }, 1000)
isSavingRefResets ==
  /\ isSavingRef(pending[Host])
  /\ pending' = [pending EXCEPT ![Host] = HostRefs(FALSE, gameStateUpdateTimeoutRef(@))]
  /\ last' = Step("savingReset", Host)
  /\ UNCHANGED <<roster, db, log, gameState, currentScreen, applied, submits, rounds>>

\* App.tsx 260-262: the 500 ms timeout of saveGameStateToSupabase fires and
\* the save lands
saveGameStateToSupabase ==
  /\ gameStateUpdateTimeoutRef(pending[Host]) # <<>>
  /\ db' = <<gameStateUpdateTimeoutRef(pending[Host])[1]>>
  /\ log' = Append(log, gameStateUpdateTimeoutRef(pending[Host])[1])
  /\ pending' = [pending EXCEPT ![Host] = HostRefs(isSavingRef(@), <<>>)]
  /\ last' = Step("debouncedSave", Host)
  /\ UNCHANGED <<roster, gameState, currentScreen, applied, submits, rounds>>

NextFinish ==
  \/ BotsVote
  \/ \E p \in Guests : VoteSubmit(p)
  \/ \E p \in Guests : RoomWritable /\ WriteLands(p)
  \/ \E p \in Guests : Deliver(p)
  \/ DeliverToHost
  \/ RoomWritable /\ HostCastsVoteThenEffect
  \/ RoomWritable /\ VoteAutoProcessThenEffect
  \/ onFinishGame
  \/ isSavingRefResets
  \/ RoomWritable /\ saveGameStateToSupabase

SpecFinish == InitRoom /\ [][NextFinish]_vars

\* ------------------------------------------------------------ play again
\* The room of four of the play-again specification: host, guest, two bots.
RoomOfFour == <<"h", "a", "p2", "p3">>

\* handlePackSelect 403-513 / handleCustomQuestionSave 515-616: the room a
\* pack was chosen for; the host of a custom pack is a spectator (529).
PackRoom(gs, pack) ==
  [hostId |-> Host, roomCode |-> "ROOM", selectedPackType |-> pack] @@ gs

PackRoles(pack) ==
  IF pack = "custom"
    THEN {[p \in SeqToSet(roster) |->
             IF p = Host THEN "spectator"
             ELSE IF p = roster[k] THEN "impostor" ELSE "innocent"] : k \in 2..3}
  ELSE RoleChoices(1)

\* handleSubmitVotes 1437-1441: the players whose vote a round waits for
PackVoters(gs) ==
  {p \in DOMAIN gs.players :
     /\ ~gs.players[p]
     /\ (gs.selectedPackType # "custom" \/ gs.playerRoles[p] # "spectator")}

PackBallots(gs) ==
  {v \in [PackVoters(gs) -> SUBSET PackVoters(gs)] :
     \A p \in PackVoters(gs) : Cardinality(v[p]) = 1 /\ p \notin v[p]}

\* The game is over: a round was resolved by processVotingResults, the host
\* pressed finish (2190) and the debounced save brought everyone to results.
GameOver(gs, allVotes) ==
  [processVotingResults(allVotes, gs, gs).state EXCEPT !.currentScreen = "results"]

InitPlayAgain ==
  /\ roster = RoomOfFour
  /\ \E pack \in {"party", "custom"} : \E roles \in PackRoles(pack) :
       \E allVotes \in PackBallots(PackRoom(VotingOpen(1, roles), pack)) :
         /\ processVotingResults(allVotes, PackRoom(VotingOpen(1, roles), pack),
                                 PackRoom(VotingOpen(1, roles), pack)).screen = "voteResults"
         /\ gameState = [p \in Participants |->
                           GameOver(PackRoom(VotingOpen(1, roles), pack), allVotes)]
         /\ db = <<GameOver(PackRoom(VotingOpen(1, roles), pack), allVotes)>>
         /\ log = <<GameOver(PackRoom(VotingOpen(1, roles), pack), allVotes)>>
  /\ currentScreen = [p \in Participants |-> "results"]
  /\ \E isSaving \in BOOLEAN :
       pending = [p \in Participants |->
                    IF p = Host THEN HostRefs(isSaving, <<>>) ELSE NoPending]
  /\ applied = [p \in Participants |-> 1]
  /\ submits = [p \in Participants |-> 0]
  /\ rounds = 1
  /\ last = Step("init", Host)

\* App.tsx 197, 1100, 1829: hasPlayedOnce is set by handleStartGame, which
\* only the host runs, and cleared by handleBackToHome
hasPlayedOnce(p) == p = Host

\* handlePlayAgain 1711-1744 and 1752-1788: the state the updater returns
PlayAgainReset(prev) ==
  [prev EXCEPT !.players = [p \in DOMAIN prev.players |-> FALSE],
               !.phase = "lobby",
               !.eliminatedPlayers = <<>>,
               !.winners = {}, !.winnerType = "undefined",
               !.playerAnswers = EmptyMap, !.submittedAnswers = EmptyMap,
               !.votes = EmptyMap,
               !.originalVotes = <<>>, !.tieBreakerVotes = <<>>,
               !.playerRoles = EmptyMap,
               !.isTieVote = FALSE, !.tiedPlayers = <<>>,
               !.impostorCount = 1, !.isRandomizeMode = FALSE]

\* transitionToScreen 960-979: only the host changes screens
transitionToScreen(p, gs, screen, newScreen) ==
  IF p # gs.hostId THEN [state |-> gs, screen |-> screen]
  ELSE [state |-> [gs EXCEPT !.currentScreen = newScreen], screen |-> newScreen]

\* handlePlayAgain 1702-1790: what the call leaves as p's state and screen
handlePlayAgain(p, gs, screen) ==
  IF gs.selectedPackType = "custom"
    THEN IF hasPlayedOnce(p)
           THEN [state |-> gs,
                 screen |-> IF gs.gameMode = "questions" THEN "customQuestionCreation"
                            ELSE "customWordCreation"]
         ELSE transitionToScreen(p, PlayAgainReset(gs), screen, "lobby")
  ELSE transitionToScreen(p, [PlayAgainReset(gs) EXCEPT !.currentScreen = "lobby"],
                          screen, "lobby")

\* ResultsScreen onPlayAgain (2196-2203), followed on the host by the effect
PlayAgainAs(p, out) ==
  /\ gameState' = [gameState EXCEPT ![p] = out.state]
  /\ currentScreen' = [currentScreen EXCEPT ![p] = out.screen]
  /\ pending' = [pending EXCEPT ![p] =
       IF p = Host /\ (out.state # gameState[p] \/ out.screen # currentScreen[p])
         THEN debouncedSaveEffect(@, out.state, out.screen)
       ELSE @]
  /\ last' = Step("playAgain", p)
  /\ UNCHANGED <<roster, db, log, applied, submits, rounds>>

PlayAgain(p) ==
  /\ currentScreen[p] = "results"
  /\ PlayAgainAs(p, handlePlayAgain(p, gameState[p], currentScreen[p]))

NextPlayAgain ==
  \/ \E p \in Participants : PlayAgain(p)
  \/ \E p \in Guests : Deliver(p)
  \/ DeliverToHost
  \/ isSavingRefResets
  \/ RoomWritable /\ saveGameStateToSupabase

SpecPlayAgain == InitPlayAgain /\ [][NextPlayAgain]_vars

\* ------------------------------------------------------------------ lobby
\* Largest impostor count the host is let to pick in the lobby.
MaxImpostorChoice == 3
\* Debounced saves that land while the room is in the lobby.
MaxLobbySaves == 1

RoomOfFive == <<"h", "a", "p2", "p3", "p4">>

\* The lobby of a pack before the start: impostorCount 1, no jester (205-243)
LobbyOf(pack) == [hasJester |-> FALSE] @@ PackRoom(LobbyState(1), pack)

\* App.tsx 1987-1991: the players that play; the host of a custom pack is a
\* spectator
playingPlayers(gs) ==
  SelectSeq(roster, LAMBDA p : ~(gs.selectedPackType = "custom" /\ p = gs.hostId))

\* App.tsx 1985-2019: the auto-adjust effect of the lobby; both checks read
\* the rendered state, their updaters are applied in order
lobbyAutoAdjust(gs) ==
  LET playerCount == Len(playingPlayers(gs))
      first == IF gs.impostorCount > maxImpostors(playerCount)
                 THEN [gs EXCEPT !.impostorCount = 1, !.hasJester = FALSE,
                                 !.isRandomizeMode = FALSE]
               ELSE gs
  IN IF playerCount < 5 /\ (gs.hasJester \/ gs.isRandomizeMode)
       THEN [first EXCEPT !.hasJester = FALSE, !.isRandomizeMode = FALSE]
     ELSE first

\* A change of the host's lobby state, followed by the debounced-save effect
HostLobbyChange(op, gs) ==
  /\ currentScreen[Host] = "lobby"
  /\ gameState[Host].phase = "lobby"
  /\ gs # gameState[Host]
  /\ gameState' = [gameState EXCEPT ![Host] = gs]
  /\ pending' = [pending EXCEPT ![Host] = debouncedSaveEffect(@, gs, "lobby")]
  /\ last' = Step(op, Host)
  /\ UNCHANGED <<roster, db, log, currentScreen, applied, submits, rounds>>

\* handleImpostorCountChange 917-929
handleImpostorCountChange ==
  \E count \in 1..MaxImpostorChoice :
    HostLobbyChange("impostorCount", [gameState[Host] EXCEPT !.impostorCount = count])

\* handleJesterToggle 945-957
handleJesterToggle ==
  \E enabled \in BOOLEAN :
    HostLobbyChange("jester", [gameState[Host] EXCEPT !.hasJester = enabled])

\* The effect 1985-2019 runs after the render that follows a change
LobbyEffect == HostLobbyChange("autoAdjust", lobbyAutoAdjust(gameState[Host]))

\* RoleAssigner (initializeGame of utils/gameLogic): the configuration is
\* rejected when the special roles are not fewer than the eligible players
NoInvalidConfiguration(gs) == FALSE

InvalidConfiguration(gs) ==
  gs.impostorCount + (IF gs.hasJester THEN 1 ELSE 0) >= Len(playingPlayers(gs))

\* RoleAssigner: impostorCount impostors among the playing players, one
\* jester after them when enabled, the others innocent
RoleAssignment(gs, k) ==
  LET pl == playingPlayers(gs)
      at(i) == pl[((k + i - 2) % Len(pl)) + 1]
  IN [p \in SeqToSet(roster) |->
        IF \E i \in 1..gs.impostorCount : at(i) = p THEN "impostor"
        ELSE IF gs.hasJester /\ at(gs.impostorCount + 1) = p THEN "jester"
        ELSE IF \E i \in 1..Len(pl) : pl[i] = p THEN "innocent"
        ELSE "spectator"]

\* handleStartGame 1086-1166 with the role assignment: the new state with the
\* players' target screen, or the old state when the assignment fails
StartedGame(gs, k) ==
  IF InvalidConfiguration(gs) THEN gs
  ELSE [initializeGame(gs, RoleAssignment(gs, k)) EXCEPT
          !.currentScreen = IF gs.selectedPackType = "custom" THEN "answers"
                            ELSE "questions"]

handleStartGameAs(newState) ==
  IF newState = gameState[Host]
    THEN /\ last' = Step("startFailed", Host)
         /\ UNCHANGED <<roster, db, log, gameState, currentScreen, pending,
                        applied, submits, rounds>>
  ELSE /\ gameState' = [gameState EXCEPT ![Host] = newState]
       /\ currentScreen' = [currentScreen EXCEPT ![Host] = newState.currentScreen]
       /\ db' = <<newState>>
       /\ log' = Append(log, newState)
       /\ pending' = [pending EXCEPT ![Host] = HostRefs(TRUE, gameStateUpdateTimeoutRef(@))]
       /\ last' = Step("startGame", Host)
       /\ UNCHANGED <<roster, applied, submits, rounds>>

handleStartGame ==
  /\ currentScreen[Host] = "lobby"
  /\ gameState[Host].phase = "lobby"
  /\ Len(roster) >= 3
  /\ \E k \in 1..MaxShift : handleStartGameAs(StartedGame(gameState[Host], k))

InitLobby ==
  /\ roster \in {Room, RoomOfFour, RoomOfFive}
  /\ \E pack \in {"party", "custom"} :
       /\ gameState = [p \in Participants |-> LobbyOf(pack)]
       /\ db = <<LobbyOf(pack)>>
       /\ log = <<LobbyOf(pack)>>
  /\ currentScreen = [p \in Participants |-> "lobby"]
  /\ pending = Idle
  /\ applied = [p \in Participants |-> 1]
  /\ submits = [p \in Participants |-> 0]
  /\ rounds = 0
  /\ last = Step("init", Host)

NextLobby ==
  \/ handleImpostorCountChange
  \/ handleJesterToggle
  \/ LobbyEffect
  \/ handleStartGame
  \/ \E p \in Guests : Deliver(p)
  \/ DeliverToHost
  \/ isSavingRefResets
  \/ Len(log) <= MaxLobbySaves /\ saveGameStateToSupabase

SpecLobby == InitLobby /\ [][NextLobby]_vars

\* ----------------------------------------------------------- short rooms
\* Largest impostor count of a room that players have left.
MaxBudget == 5

\* onPlayersUpdate 303-305: players have left the room after the game was
\* started with up to MaxBudget impostors; the host and two or three bots
\* are still there and the voting phase has opened.
InitShortIn(room) ==
  /\ roster = room
  /\ \E n \in 1..MaxBudget : \E roles \in {RolesFrom(k, 1) : k \in 1..MaxShift} :
       /\ gameState = [p \in Participants |-> VotingOpen(n, roles)]
       /\ db = <<VotingOpen(n, roles)>>
       /\ log = <<VotingOpen(n, roles)>>
  /\ currentScreen = [p \in Participants |-> "voting"]
  /\ pending = Idle
  /\ applied = [p \in Participants |-> 1]
  /\ submits = [p \in Participants |-> 0]
  /\ rounds = 0
  /\ last = [op |-> "init", by |-> Host, votes |-> EmptyMap]

InitShort == InitShortIn(Room3) \/ InitShortIn(Room4)

NextShort ==
  \/ BotsVote
  \/ RoomWritable /\ HostCastsVote
  \/ RoomWritable /\ VoteAutoProcess

SpecShort == InitShort /\ [][NextShort]_vars

\* The same room while no snapshot is delivered: the submissions of one round
\* run one after another against the stored state.
NextSubmit ==
  \/ BotsVote
  \/ \E p \in Guests : VoteSubmit(p)
  \/ \E p \in Guests : WriteLands(p)
  \/ HostCastsVote

SpecSubmit == InitRoom /\ [][NextSubmit]_vars

\* ---------------------------------------------------------- room properties
Stored == db[1]

\* <<m[k]>> when the map has an entry for k, <<>> when it has none
Entry(m, k) == IF k \in DOMAIN m THEN <<m[k]>> ELSE <<>>

IsPrefix(s, t) == Len(s) <= Len(t) /\ SubSeq(t, 1, Len(s)) = s

\* The order of the screens and of the phases within one game.
ScreenRank(screen) ==
  CASE screen = "lobby" -> 0
    [] screen = "questions" -> 1
    [] screen = "roleReveal" -> 2
    [] screen = "answers" -> 3
    [] screen = "discussion" -> 4
    [] screen = "voting" -> 5
    [] screen = "voteResults" -> 6
    [] screen = "results" -> 7

PhaseRank(phase) ==
  CASE phase = "lobby" -> 0
    [] phase = "questions" -> 1
    [] phase = "voting" -> 2
    [] phase = "voteResults" -> 3
    [] phase = "results" -> 4

\* p has submitted its answer in this visit of the questions screen and the
\* write has landed.
AnswerLanded(p) ==
  /\ currentScreen[p] = "questions"
  /\ submits[p] = 1
  /\ pending[p] = NoPending

\* C1: once two different players have both submitted their answers and both
\* writes have landed, the stored answers map holds an entry of each of them,
\* whatever the interleaving of their fetch-and-merge and write steps was.
ConcurrentSubmissionsBothStored ==
  (/\ \A p \in Participants : AnswerLanded(p)
   /\ Stored.currentScreen = "questions")
    => \A p \in Participants :
         /\ p \in DOMAIN Stored.playerAnswers
         /\ p \in DOMAIN Stored.submittedAnswers

\* Both players have submitted, both writes have landed, and the stored state
\* holds the entry of one of them only.
OneSubmissionClobbered ==
  /\ \A p \in Participants : AnswerLanded(p)
  /\ Stored.currentScreen = "questions"
  /\ \E p \in Participants : p \notin DOMAIN Stored.submittedAnswers
  /\ \E p \in Participants : p \in DOMAIN Stored.submittedAnswers

\* A write issued by a non-host participant lands in this step.
NonHostWriteLands ==
  /\ last'.op \in {"answerLands", "voteLands"}
  /\ last'.by # Host

\* C2: no write of a non-host participant changes the phase or the
\* currentScreen of the stored game state.
OnlyHostCommitsPhase ==
  [][NonHostWriteLands =>
       /\ db'[1].phase = Stored.phase
       /\ db'[1].currentScreen = Stored.currentScreen]_vars

\* A guest's vote has landed on a stored state that shows the vote results:
\* the case in which a guest's write could take the phase back.
GuestVoteAfterResults ==
  /\ last.op = "voteLands"
  /\ last.by # Host
  /\ rounds > 0
  /\ \E i \in 1..Len(log) : log[i].phase = "voteResults"

\* C3: a snapshot received from the realtime feed never moves the receiver's
\* phase or currentScreen back to an earlier one of the same game, and never
\* removes a player from its eliminated list.
SnapshotNeverMovesBack ==
  [][\A p \in Participants :
       (last'.op = "deliver" /\ last'.by = p) =>
         /\ ScreenRank(currentScreen'[p]) >= ScreenRank(currentScreen[p])
         /\ PhaseRank(gameState'[p].phase) >= PhaseRank(gameState[p].phase)
         /\ IsPrefix(gameState[p].eliminatedPlayers,
                     gameState'[p].eliminatedPlayers)]_vars

\* A participant that shows the vote results has received a snapshot.
SnapshotAfterResults ==
  /\ last.op = "deliver"
  /\ \E i \in 1..Len(log) : log[i].phase = "voteResults"
  /\ applied[last.by] > 1

\* The write of a submission (an answer, a guest's vote, a vote of the host
\* that does not complete the round) lands in this step.
SubmissionLands ==
  \/ last'.op \in {"answerLands", "voteLands"}
  \/ last'.op = "vote" /\ last'.by = Host

\* C4: the write of a submission by P leaves the entry of every other
\* participant in the stored votes and answers maps as it was in the stored
\* state: not added, not removed, not replaced.
SubmissionChangesOwnEntryOnly ==
  [][SubmissionLands =>
       \A r \in Participants \ {last'.by} :
         /\ Entry(db'[1].votes, r) = Entry(Stored.votes, r)
         /\ Entry(db'[1].playerAnswers, r) = Entry(Stored.playerAnswers, r)
         /\ Entry(db'[1].submittedAnswers, r) = Entry(Stored.submittedAnswers, r)]_vars

\* A submission has landed on a stored state that held the vote of another
\* participant.
SubmissionOverStoredVote ==
  /\ last.op \in {"voteLands", "vote"}
  /\ Len(log) >= 3
  /\ \E r \in Participants \ {last.by} : r \in DOMAIN log[Len(log) - 1].votes

\* One vote submission run to completion: the stored state and the
\* submitter's state and screen it leaves.
HostVoteOutcome(gs, screen, allVotes, out) ==
  [row |-> RowAfter(<<HostStateToSave(gs, screen, allVotes)>>, out.save),
   gs |-> out.state, screen |-> out.screen]

HostVoteDone(gs, screen, userVotes) ==
  HostVoteOutcome(gs, screen, allVotesOf(gs, Host, userVotes),
                  AfterVoteSave(Host, gs, allVotesOf(gs, Host, userVotes),
                                VoteMerged(gs, Host, userVotes), screen))

GuestVoteDone(row, gs, screen, p, userVotes) ==
  [row |-> <<GuestStateToSave(row, VoteMerged(gs, p, userVotes))>>,
   gs |-> VoteMerged(gs, p, userVotes), screen |-> screen]

\* One answer submission run to completion.
AnswerDone(row, gs, screen, p, answer) ==
  [row |-> <<AnswerMerged(latestState(row, gs), gs, screen, p, answer)>>,
   gs |-> AnswerMerged(latestState(row, gs), gs, screen, p, answer),
   screen |-> screen]

\* p can cast a vote in this state.
CanVote(p) ==
  /\ InVotingRound(p)
  /\ pending[p] = NoPending
  /\ ~gameState[p].players[p]
  /\ Ballots(gameState[p], p) # {}

\* The stored state after the host's submission and then the guest's, and
\* after the guest's and then the host's.
HostThenGuest(g, pH, pG) ==
  GuestVoteDone(HostVoteDone(gameState[Host], currentScreen[Host], pH).row,
                gameState[g], currentScreen[g], g, pG).row

GuestThenHost(g, pH, pG) ==
  HostVoteDone(gameState[Host], currentScreen[Host], pH).row

\* C5: for two distinct players, each submission running to completion before
\* the other starts, submitting A's vote and then B's leaves the same stored
\* game state as submitting B's and then A's.
VoteSubmissionsCommute ==
  \A g \in Guests :
    (CanVote(Host) /\ CanVote(g)) =>
      \A pH \in Ballots(gameState[Host], Host) :
        \A pG \in Ballots(gameState[g], g) :
          HostThenGuest(g, pH, pG) = GuestThenHost(g, pH, pG)

\* The payloads of an answer submission.
Payloads == {"x", "y"}

\* p's vote p1 leaves the round open: some player has still not voted.
RoundStaysOpen(p, p1) ==
  playersWhoHaventVoted(gameState[p], allVotesOf(gameState[p], p, p1)) # {}

VoteDone(row, gs, screen, p, userVotes) ==
  IF p = Host THEN HostVoteDone(gs, screen, userVotes)
  ELSE GuestVoteDone(row, gs, screen, p, userVotes)

VoteTwice(p, first, p2) == VoteDone(first.row, first.gs, first.screen, p, p2)

AnswerTwice(p, first, p2) == AnswerDone(first.row, first.gs, first.screen, p, p2)

EliminatedOnlyGrows ==
  [][/\ \A p \in Participants :
          \/ gameState'[p].phase = "lobby"
          \/ SeqToSet(gameState[p].eliminatedPlayers)
               \subseteq SeqToSet(gameState'[p].eliminatedPlayers)
     /\ \/ db'[1].phase = "lobby"
        \/ SeqToSet(Stored.eliminatedPlayers)
             \subseteq SeqToSet(db'[1].eliminatedPlayers)]_vars

\* A vote resolution has eliminated a player and a later step has been taken.
EliminationThenStep ==
  /\ last.op # "resolve"
  /\ \E i \in 1..Len(log) : log[i].eliminatedPlayers # <<>>

TieFlagOf(gs) == (gs.tiedPlayers # <<>>) <=> gs.isTieVote

\* C8: in every reachable game state, of a participant or stored,
\* tiedPlayers is non-empty if and only if isTieVote is true.
TiedPlayersIffTieVote ==
  /\ \A p \in Participants : TieFlagOf(gameState[p])
  /\ TieFlagOf(Stored)

\* A tie-breaker round of the words game in randomize mode has been resolved.
WordsTieBreakerResolved ==
  /\ gameState[Host].gameMode = "words"
  /\ last.op = "resolve"
  /\ rounds >= 2
  /\ gameState[Host].originalVotes # <<>>

\* ------------------------------------------------------- resolver properties
\* The tally of one vote map, counted from the ballots alone.
Candidates(gs) == {p \in SeqToSet(roster) : ~Includes(gs.eliminatedPlayers, p)}

Tally(allVotes, c) == Cardinality({v \in DOMAIN allVotes : c \in allVotes[v]})

AtLeast(gs, allVotes, v) == {c \in Candidates(gs) : Tally(allVotes, c) >= v}

\* The vote count of the candidate ranked N-th: fewer than N candidates have
\* more votes, at least N have that many or more.
NthVotes(gs, allVotes) ==
  CHOOSE v \in 0..Len(roster) :
    /\ Cardinality(AtLeast(gs, allVotes, v)) >= gs.impostorCount
    /\ Cardinality(AtLeast(gs, allVotes, v + 1)) < gs.impostorCount

InitialResolve ==
  /\ last'.op = "resolve"
  /\ ~gameState[Host].isTieVote
  /\ ~gameState[Host].isRandomizeMode

\* C9: a standard-mode vote resolution that has completed (the vote results
\* are shown and no tie is pending) has eliminated exactly impostorCount
\* players.
ResolutionEliminatesImpostorCount ==
  \A p \in Participants :
    (/\ gameState[p].phase = "voteResults"
     /\ ~gameState[p].isTieVote
     /\ ~gameState[p].isRandomizeMode)
      => Len(gameState[p].eliminatedPlayers) = gameState[p].impostorCount

\* A completed resolution in which impostors and innocents both remain: no
\* game-ending condition can have cut it short.
ResolutionCompleted ==
  /\ last.op = "resolve"
  /\ gameState[Host].phase = "voteResults"
  /\ ~gameState[Host].isTieVote
  /\ WithRole(gameState[Host].playerRoles, "impostor")
       \ SeqToSet(gameState[Host].eliminatedPlayers) # {}
  /\ WithRole(gameState[Host].playerRoles, "innocent")
       \ SeqToSet(gameState[Host].eliminatedPlayers) # {}

\* C10: in the standard-mode initial vote, when the candidates with at least
\* the N-th candidate's v votes number more than N, the step declares a tie:
\* tiedPlayers is exactly the candidates with v votes, the candidates with
\* more than v votes are appended to eliminatedPlayers, the game stays in voting.
InitialTieDeclared ==
  [][InitialResolve =>
       LET gs == gameState[Host]
           after == gameState'[Host]
           allVotes == last'.votes
           v == NthVotes(gs, allVotes)
           above == AtLeast(gs, allVotes, v + 1)
           old == Len(gs.eliminatedPlayers)
       IN Cardinality(AtLeast(gs, allVotes, v)) > gs.impostorCount =>
            /\ after.isTieVote
            /\ SeqToSet(after.tiedPlayers) = AtLeast(gs, allVotes, v) \ above
            /\ Len(after.eliminatedPlayers) = old + Cardinality(above)
            /\ SubSeq(after.eliminatedPlayers, 1, old) = gs.eliminatedPlayers
            /\ SeqToSet(after.eliminatedPlayers)
                 = SeqToSet(gs.eliminatedPlayers) \cup above
            /\ after.phase = "voting"
            /\ currentScreen'[Host] = "voting"]_vars

\* An initial vote has declared a tie and eliminated a strictly-above cohort.
InitialTieWithCohort ==
  /\ last.op = "resolve"
  /\ gameState[Host].isTieVote
  /\ gameState[Host].tieBreakerVotes = <<>>
  /\ gameState[Host].originalVotes = <<last.votes>>
  /\ gameState[Host].eliminatedPlayers # <<>>
  /\ Len(gameState[Host].tiedPlayers) >= 2
  /\ gameState[Host].phase = "voting"

\* C11: in the standard-mode initial vote, when exactly N = impostorCount
\* candidates have at least the N-th candidate's votes, the step eliminates
\* exactly those N candidates, leaves isTieVote false, determines the winner
\* and moves phase and screen to voteResults.
InitialNoTieEliminatesTopN ==
  [][InitialResolve =>
       LET gs == gameState[Host]
           after == gameState'[Host]
           allVotes == last'.votes
           top == AtLeast(gs, allVotes, NthVotes(gs, allVotes))
           old == Len(gs.eliminatedPlayers)
       IN Cardinality(top) = gs.impostorCount =>
            /\ ~after.isTieVote
            /\ after.tiedPlayers = <<>>
            /\ Len(after.eliminatedPlayers) = old + gs.impostorCount
            /\ SubSeq(after.eliminatedPlayers, 1, old) = gs.eliminatedPlayers
            /\ SeqToSet(after.eliminatedPlayers)
                 = SeqToSet(gs.eliminatedPlayers) \cup top
            /\ \A c \in top : after.players[c]
            /\ after.winnerType # "undefined"
            /\ after.winners # {}
            /\ after.phase = "voteResults"
            /\ currentScreen'[Host] = "voteResults"]_vars

\* An initial vote without a tie has eliminated two players at once.
InitialVoteEliminatedTwo ==
  /\ last.op = "resolve"
  /\ gameState[Host].impostorCount = 2
  /\ gameState[Host].originalVotes = <<last.votes>>
  /\ gameState[Host].tieBreakerVotes = <<>>
  /\ ~gameState[Host].isTieVote
  /\ Len(gameState[Host].eliminatedPlayers) = 2
  /\ gameState[Host].phase = "voteResults"

TieBreakerResolve ==
  /\ last'.op = "resolve"
  /\ gameState[Host].isTieVote
  /\ ~gameState[Host].isRandomizeMode

\* The ballots with every name outside the tied cohort struck out.
InCohort(allVotes, gs) ==
  [v \in DOMAIN allVotes |-> allVotes[v] \cap SeqToSet(gs.tiedPlayers)]

RoundOutcome(gs) ==
  [eliminatedPlayers |-> gs.eliminatedPlayers, tiedPlayers |-> gs.tiedPlayers,
   isTieVote |-> gs.isTieVote, phase |-> gs.phase, winners |-> gs.winners]

\* C12: in a standard-mode tie-breaker round every player the round
\* eliminates and every player it carries into the next tie-breaker is a
\* member of tiedPlayers, and the votes naming a player outside tiedPlayers
\* are not counted: the round ends as it does with those names struck out.
TieBreakerWithinCohort ==
  [][TieBreakerResolve =>
       LET gs == gameState[Host]
           after == gameState'[Host]
           allVotes == last'.votes
           tied == SeqToSet(gs.tiedPlayers)
       IN /\ SeqToSet(after.eliminatedPlayers) \ SeqToSet(gs.eliminatedPlayers)
               \subseteq tied
          /\ SeqToSet(after.tiedPlayers) \subseteq tied
          /\ \A struck \in {InCohort(allVotes, gs)} :
               RoundOutcome(after)
                 = RoundOutcome(processVotingResults(struck, gs,
                                                     [gs EXCEPT !.votes = allVotes]).state)]_vars

\* A tie-breaker round has been resolved in which the player named most
\* often is outside the tied cohort, and a tied player has been eliminated.
OutsiderNamedMost ==
  /\ last.op = "resolve"
  /\ rounds = 2
  /\ Len(gameState[Host].tieBreakerVotes) = 1
  /\ ~gameState[Host].isTieVote
  /\ gameState[Host].eliminatedPlayers # <<>>
  /\ \E o \in Candidates(gameState[Host]) :
       \A e \in SeqToSet(gameState[Host].eliminatedPlayers) :
         Tally(last.votes, o) > Tally(last.votes, e)

\* The tally of a tie-breaker round, counted from the ballots alone: the
\* votes of the non-eliminated voters for a member of the tied cohort.
TieTally(gs, allVotes, c) ==
  Cardinality({v \in DOMAIN allVotes :
                 ~Includes(gs.eliminatedPlayers, v) /\ c \in allVotes[v]})

TiedAtLeast(gs, allVotes, v) ==
  {c \in SeqToSet(gs.tiedPlayers) : TieTally(gs, allVotes, c) >= v}

\* The eliminations the round still owes.
Budget(gs) == gs.impostorCount - Len(gs.eliminatedPlayers)

\* The vote count at the rank of the last owed elimination within the cohort.
TieThreshold(gs, allVotes) ==
  CHOOSE v \in 0..Len(roster) :
    /\ Cardinality(TiedAtLeast(gs, allVotes, v))
         >= Min(Budget(gs), Len(gs.tiedPlayers))
    /\ Cardinality(TiedAtLeast(gs, allVotes, v + 1))
         < Min(Budget(gs), Len(gs.tiedPlayers))

\* The candidates with exactly the threshold count fit the budget left once
\* the candidates above the threshold are eliminated.
ContestedFitBudget(gs, allVotes) ==
  Cardinality(TiedAtLeast(gs, allVotes, TieThreshold(gs, allVotes)))
    <= Budget(gs)

\* C13: a standard-mode tie-breaker round whose still contested candidates
\* do not exceed the remaining elimination budget ends tie-breaking:
\* isTieVote becomes false and phase and screen move to voteResults.
TieBreakerEndsWithinBudget ==
  [][TieBreakerResolve =>
       (ContestedFitBudget(gameState[Host], last'.votes) =>
          /\ ~gameState'[Host].isTieVote
          /\ gameState'[Host].phase = "voteResults"
          /\ currentScreen'[Host] = "voteResults")]_vars

\* A tie-breaker round has started another round with a cohort that fits the
\* eliminations still owed.
TieBreakerCohortFitsBudget ==
  /\ last.op = "resolve"
  /\ gameState[Host].isTieVote
  /\ gameState[Host].tieBreakerVotes # <<>>
  /\ Len(gameState[Host].tiedPlayers) <= Budget(gameState[Host])

\* C14: tie-breaking terminates: a standard-mode tie-breaker round starts
\* another round only with a tied cohort smaller than the one it was held
\* on, so the consecutive rounds are bounded by the number of players; a
\* cohort that fails to shrink never gets another round.
TieBreakerCohortShrinks ==
  [][(TieBreakerResolve /\ gameState'[Host].isTieVote) =>
       Len(gameState'[Host].tiedPlayers) < Len(gameState[Host].tiedPlayers)]_vars

\* A tie-breaker round has been followed by another tie-breaker round.
TieBreakerRepeated ==
  /\ last.op = "resolve"
  /\ gameState[Host].isTieVote
  /\ Len(gameState[Host].tieBreakerVotes) >= 1
  /\ currentScreen[Host] = "voting"

\* The keys a step adds to a map.
NewKeys(before, after) == (DOMAIN after) \ (DOMAIN before)

\* C15: a submission from an eliminated player is rejected: no step adds to
\* the votes map or to the answers maps of a participant an entry keyed by a
\* player that is in eliminatedPlayers.
SubmissionsFromEligibleOnly ==
  [][\A p \in Participants :
       \A k \in NewKeys(gameState[p].votes, gameState'[p].votes)
                \cup NewKeys(gameState[p].playerAnswers, gameState'[p].playerAnswers)
                \cup NewKeys(gameState[p].submittedAnswers,
                             gameState'[p].submittedAnswers) :
         ~Includes(gameState[p].eliminatedPlayers, k)]_vars

\* The bots have voted in a tie-breaker round that follows the elimination
\* of a player.
VotesCastAfterElimination ==
  /\ last.op = "botVotes"
  /\ gameState[Host].isTieVote
  /\ gameState[Host].eliminatedPlayers # <<>>
  /\ gameState[Host].votes # EmptyMap

\* The write of a vote lands on a stored state that is no longer in the
\* voting phase, or the write of an answer on one no longer in the
\* questions phase.
LateWriteLands ==
  \/ last'.op = "voteLands" /\ Stored.phase # "voting"
  \/ last'.op = "answerLands" /\ Stored.phase # "questions"

\* A participant that still shows the voting screen submits a vote when the
\* stored state is no longer in the voting phase.
LateVoteSubmitted ==
  /\ last'.op = "vote"
  /\ last'.by # Host
  /\ Stored.phase # "voting"

\* C16: a submission made after its window has closed is rejected: a vote
\* submitted or landing when the stored phase is no longer voting, and an
\* answer landing when it is no longer questions, leave the stored game
\* state as it is.
LateSubmissionRejected ==
  [][/\ LateWriteLands => db' = db
     /\ LateVoteSubmitted => pending'[last'.by].state = Stored]_vars

\* The vote results are stored and a guest that has not yet received them
\* has its vote written.
VoteLandsAfterResults ==
  /\ last.op = "voteLands"
  /\ Len(log) >= 2
  /\ log[Len(log) - 1].phase = "voteResults"

\* The host's resolution of a randomize round eliminates a player.
RandomizeEliminates ==
  /\ last'.op = "resolve"
  /\ gameState[Host].isRandomizeMode
  /\ Len(gameState'[Host].eliminatedPlayers) > Len(gameState[Host].eliminatedPlayers)

\* The players of a state that are neither eliminated nor spectators.
StillPlaying(gs) ==
  {p \in SeqToSet(roster) : /\ ~Includes(gs.eliminatedPlayers, p)
                            /\ gs.playerRoles[p] # "spectator"}

\* C17: in randomize mode an elimination that leaves two or fewer
\* non-eliminated, non-spectator players ends the game in the resolution
\* itself: the phase and the screen become results.
RandomizeEndsAtTwoRemaining ==
  [][(RandomizeEliminates /\ Cardinality(StillPlaying(gameState'[Host])) <= 2)
       => /\ gameState'[Host].phase = "results"
          /\ gameState'[Host].currentScreen = "results"
          /\ currentScreen'[Host] = "results"]_vars

\* A randomize round has eliminated a player and two players remain.
RandomizeTwoRemain ==
  /\ last.op = "resolve"
  /\ gameState[Host].isRandomizeMode
  /\ gameState[Host].eliminatedPlayers # <<>>
  /\ Cardinality(StillPlaying(gameState[Host])) = 2

\* The candidates of a randomize round that share its highest vote count.
MaxVoted(gs, allVotes) ==
  {c \in Candidates(gs) : \A d \in Candidates(gs) : Tally(allVotes, d) <= Tally(allVotes, c)}

RandomizeResolve ==
  /\ last'.op = "resolve"
  /\ gameState[Host].isRandomizeMode

WriteBudgetSpent == Len(log) > MaxWrites

\* C19: the answer timer back-fills every human player who has not
\* submitted, so the answer-collection phase always ends: whenever the host
\* is on the questions screen, it eventually leaves it, even if a player
\* never submits (unless the writes the model allows are used up).
AnswerPhaseAlwaysEnds ==
  (currentScreen[Host] = "questions")
    ~> (currentScreen[Host] # "questions" \/ WriteBudgetSpent)

\* The host's answer timer has expired and a human player still has no entry
\* in the host's submittedAnswers.
TimerLeavesHumanOut ==
  /\ last = Step("answerTimer", Host)
  /\ currentScreen[Host] = "questions"
  /\ botsWithoutAnswer(gameState[Host]) = {}
  /\ \E p \in Participants : p \notin DOMAIN gameState[Host].submittedAnswers

\* The answer timer of a participant expires when that participant is no
\* longer on the questions screen in the questions phase.
TimerExpiresAfterPhaseLeft ==
  /\ last'.op = "answerTimer"
  /\ ~AnswerTimerArmed(gameState[last'.by], currentScreen[last'.by])

HostResolves ==
  /\ pending[Host].kind = "save"
  /\ last'.op = "resolve"

\* C21: the host never commits a vote resolution computed from a game state
\* older than its latest locally applied one: when the resolution runs, the
\* state it was computed from is the host's current state.
ResolutionFromLatestState ==
  [][HostResolves =>
       [pending[Host].gs EXCEPT !.votes = pending[Host].allVotes] = gameState[Host]]_vars

\* The host has resolved the round with a vote of the guest that differs from
\* the one in the newest snapshot the host had applied before resolving.
ResolvedWithReplacedVote ==
  /\ last.op = "resolve"
  /\ Stored.phase = "voteResults"
  /\ Len(log) >= 3
  /\ applied[Host] >= Len(log) - 2
  /\ "a" \in DOMAIN log[Len(log) - 2].votes
  /\ "a" \in DOMAIN last.votes
  /\ log[Len(log) - 2].votes["a"] # last.votes["a"]

\* The changes of screen the standard questions game allows.
ScreenSteps ==
  {<<"lobby", "questions">>, <<"questions", "roleReveal">>,
   <<"roleReveal", "answers">>, <<"answers", "discussion">>,
   <<"answers", "voting">>, <<"discussion", "voting">>,
   <<"voting", "voteResults">>, <<"voteResults", "results">>,
   <<"results", "lobby">>}

\* C22: in the standard questions game the stored currentScreen only
\* advances in the order lobby, questions, roleReveal, answers,
\* (discussion,) voting, voteResults, results, with voting repeated for
\* tie-breaker rounds and results returning to lobby; it never steps back.
StoredScreenOnlyAdvances ==
  [][\/ db'[1].currentScreen = db[1].currentScreen
     \/ <<db[1].currentScreen, db'[1].currentScreen>> \in ScreenSteps]_vars

\* The stored screen has been voteResults and is voting again although no
\* tie is pending.
StoredScreenBackToVoting ==
  /\ Len(log) >= 2
  /\ log[Len(log) - 1].currentScreen = "voteResults"
  /\ Stored.currentScreen = "voting"
  /\ ~log[Len(log) - 1].isTieVote

\* Every written snapshot has been delivered to every participant, no write
\* is under way, no debounced save is waiting and isSavingRef is reset.
AllDelivered ==
  \A p \in Participants : applied[p] = Len(log) /\ pending[p] = NoPending

\* C23: once the host has stopped acting and every written snapshot has been
\* delivered, each participant's displayed screen and phase equal those of
\* the stored game state.
SameScreenOnceDelivered ==
  AllDelivered =>
    \A p \in Participants : /\ currentScreen[p] = Stored.currentScreen
                             /\ gameState[p].phase = Stored.phase

\* The host shows the results, the stored screen is voteResults, and nothing
\* is left to deliver or to save.
HostAloneOnResults ==
  /\ AllDelivered
  /\ currentScreen[Host] = "results"
  /\ Stored.currentScreen = "voteResults"

\* The host changes its own screen by one of its handlers.
HostTransitionStep ==
  /\ last'.by = Host
  /\ last'.op \in {"resolve", "finishGame"}
  /\ currentScreen'[Host] # currentScreen[Host]

\* C24: every screen transition made by the host is written to the stored
\* game state as part of the transition: after the step the stored
\* currentScreen equals the host's currentScreen.
HostTransitionStoredAtOnce ==
  [][HostTransitionStep => db'[1].currentScreen = currentScreen'[Host]]_vars

\* The host has moved on to the results and the save of that screen is left
\* to the timeout of the debounced save.
ResultsLeftToDebouncedSave ==
  /\ last = Step("finishGame", Host)
  /\ currentScreen[Host] = "results"
  /\ Stored.currentScreen = "voteResults"
  /\ gameStateUpdateTimeoutRef(pending[Host]) # <<>>

\* The players of a state that are not eliminated (the model has no
\* spectators).
ActivePlayers(gs) == {p \in DOMAIN gs.players : ~gs.players[p]}

\* C25: the host moves the game from questions to roleReveal only when
\* every non-eliminated, non-spectator player, bot or human, has an entry in
\* submittedAnswers, in the host's state and in the state it writes.
RoleRevealOnlyWhenAllAnswered ==
  [][last'.op = "roleReveal" =>
       /\ ActivePlayers(gameState[Host]) \subseteq DOMAIN gameState[Host].submittedAnswers
       /\ ActivePlayers(db'[1]) \subseteq DOMAIN db'[1].submittedAnswers
       /\ \A p \in ActivePlayers(db'[1]) : db'[1].submittedAnswers[p]]_vars

\* The host has just moved to the role reveal in a room with a bot.
RoleRevealReached ==
  /\ last.op = "roleReveal"
  /\ Stored.currentScreen = "roleReveal"
  /\ ActivePlayers(Stored) \cap BotIds # {}
  /\ ActivePlayers(Stored) \subseteq DOMAIN Stored.submittedAnswers

\* C26: the host resolves a voting round only when every non-eliminated,
\* non-spectator player has an entry in the votes it resolves.
ResolveOnlyWhenAllVoted ==
  [][(last'.op = "resolve" /\ last'.by = Host) =>
       ActivePlayers(gameState[Host]) \subseteq DOMAIN last'.votes]_vars

\* The host has resolved a round in which the guest, the bot and the host
\* have voted.
RoundResolvedWithAllVotes ==
  /\ last.op = "resolve"
  /\ DOMAIN last.votes = SeqToSet(roster)
  /\ Guests # {}

\* ---------------------------------------------------------------- C27
RoundFieldsReset(gs) ==
  /\ gs.eliminatedPlayers = <<>>
  /\ \A p \in DOMAIN gs.players : ~gs.players[p]
  /\ gs.votes = EmptyMap /\ gs.originalVotes = <<>> /\ gs.tieBreakerVotes = <<>>
  /\ gs.playerAnswers = EmptyMap /\ gs.submittedAnswers = EmptyMap
  /\ gs.playerRoles = EmptyMap
  /\ gs.winners = {} /\ gs.winnerType = "undefined"
  /\ ~gs.isTieVote /\ gs.tiedPlayers = <<>>

RoomKept(before, after) ==
  /\ DOMAIN after.players = DOMAIN before.players
  /\ after.roomCode = before.roomCode
  /\ after.hostId = before.hostId

\* C27: when the host plays again from results, the host is in the lobby with
\* the round-scoped fields (eliminated, votes, answers, roles, winners, tie
\* state) reset, and the roster, the room code and the host are unchanged.
PlayAgainReturnsToLobby ==
  [][(last'.op = "playAgain" /\ last'.by = Host)
       => /\ currentScreen'[Host] = "lobby"
          /\ gameState'[Host].phase = "lobby"
          /\ RoundFieldsReset(gameState'[Host])
          /\ RoomKept(gameState[Host], gameState'[Host])]_vars

\* the host of a regular pack has played again and is back in the lobby
PlayedAgainToLobby ==
  /\ last.op = "playAgain" /\ last.by = Host
  /\ currentScreen[Host] = "lobby"
  /\ gameState[Host].phase = "lobby"
  /\ RoundFieldsReset(gameState[Host])

TieBreakerSnapshotAppended ==
  [][(last'.op = "resolve" /\ last'.by = Host /\ gameState[Host].isTieVote)
       => gameState'[Host].tieBreakerVotes
            = Append(gameState[Host].tieBreakerVotes, last'.votes)]_vars

\* a tie-breaker round has been resolved and its snapshot closes the history
TieBreakerSnapshotLogged ==
  /\ last.op = "resolve" /\ last.by = Host
  /\ gameState[Host].tieBreakerVotes # <<>>
  /\ gameState[Host].tieBreakerVotes[Len(gameState[Host].tieBreakerVotes)] = last.votes

\* ---------------------------------------------------------------- C30
\* the host's handler has reached the resolution of an initial vote while
\* the non-eliminated players are fewer than the eliminations still needed
ResolutionShortOfPlayers ==
  /\ last'.op \in {"vote", "resolve"} /\ last'.by = Host
  /\ playersWhoHaventVoted(gameState[Host], last'.votes) = {}
  /\ ~gameState[Host].isTieVote
  /\ Cardinality({p \in DOMAIN gameState[Host].players :
                    ~Includes(gameState[Host].eliminatedPlayers, p)})
       < gameState[Host].impostorCount - Len(gameState[Host].eliminatedPlayers)

OnlyHostResolves ==
  [][\A p \in Guests :
       last'.by = p
         => /\ last'.op # "resolve"
            /\ rounds' = rounds
            /\ last'.op # "deliver"
                 => /\ [gameState'[p] EXCEPT !.votes = gameState[p].votes] = gameState[p]
                    /\ currentScreen'[p] = currentScreen[p]]_vars

\* the guest's vote has landed as the last of the round, and the round is
\* still unresolved
GuestVoteCompletesRound ==
  /\ last.op = "voteLands" /\ last.by \in Guests
  /\ db # <<>> /\ playersWhoHaventVoted(db[1], db[1].votes) = {}
  /\ rounds = 0

\* ---------------------------------------------------------------- C33
\* a step of someone else puts the vote of v into the stored votes of an
\* open tie-breaker round (the bots' votes travel with the host's writes)
VoteAppearsUncast(v) ==
  /\ db # <<>> /\ db[1].isTieVote
  /\ db' # <<>> /\ db'[1].isTieVote
  /\ v \in DOMAIN db'[1].votes /\ v \notin DOMAIN db[1].votes
  /\ last'.by # v
  /\ ~(v \in BotIds /\ last'.by = Host)

\* C33: once the stored state is in a tie-breaker round with the votes
\* cleared, a vote enters the stored votes map only by being cast in that
\* round; no vote of an earlier round reappears in it.
NoEarlierVoteReappears ==
  [][\A v \in SeqToSet(roster) : ~VoteAppearsUncast(v)]_vars

\* the stored tie-breaker round holds a bot's vote of the tied round that
\* the guest's write has brought back
EarlierVoteInTieBreaker ==
  /\ last.op = "voteLands" /\ last.by \in Guests
  /\ db # <<>> /\ db[1].isTieVote /\ db[1].originalVotes # <<>>
  /\ \E v \in BotIds \cap DOMAIN db[1].votes :
       /\ v \in DOMAIN db[1].originalVotes[1]
       /\ db[1].votes[v] = db[1].originalVotes[1][v]
       /\ v \notin DOMAIN gameState[Host].votes

\* ---------------------------------------------------------------- C34
NoDuplicates(ids) == \A i, j \in 1..Len(ids) : ids[i] = ids[j] => i = j

\* C34: in every participant's state and in the stored state,
\* eliminatedPlayers holds no player id twice.
EliminatedWithoutDuplicates ==
  /\ \A p \in Participants : NoDuplicates(gameState[p].eliminatedPlayers)
  /\ db # <<>> => NoDuplicates(db[1].eliminatedPlayers)

\* The host's resolution ran twice on the same votes and appended the same
\* player to eliminatedPlayers both times.
PlayerEliminatedTwice ==
  /\ ~NoDuplicates(gameState[Host].eliminatedPlayers)
  /\ last.op = "resolve"


\* ---------------------------------------------------------------- C35
\* C35: in standard mode, in every participant's state and in the stored
\* state, the number of eliminated players is at most impostorCount.
EliminatedWithinImpostorCount ==
  /\ \A p \in Participants :
       ~gameState[p].isRandomizeMode =>
         Len(gameState[p].eliminatedPlayers) <= gameState[p].impostorCount
  /\ (db # <<>> /\ ~db[1].isRandomizeMode) =>
       Len(db[1].eliminatedPlayers) <= db[1].impostorCount

\* A standard-mode resolution left the host with more eliminated players than
\* impostorCount.
MoreEliminatedThanImpostors ==
  /\ last.op = "resolve"
  /\ ~gameState[Host].isRandomizeMode
  /\ Len(gameState[Host].eliminatedPlayers) > gameState[Host].impostorCount

\* ---------------------------------------------------------------- C36
\* C36: in the state a vote resolution leaves, a player's isEliminated flag
\* is true exactly when the player's id is in eliminatedPlayers.
FlagsMatchEliminated ==
  last.op = "resolve" =>
    \A q \in DOMAIN gameState[last.by].players :
      gameState[last.by].players[q]
        <=> Includes(gameState[last.by].eliminatedPlayers, q)

\* The initial vote declared a tie and eliminated the players above the
\* tied cohort; one of them is in eliminatedPlayers with isEliminated false.
EliminatedWithoutFlag ==
  /\ last.op = "resolve"
  /\ gameState[Host].isTieVote
  /\ \E q \in DOMAIN gameState[Host].players :
       /\ Includes(gameState[Host].eliminatedPlayers, q)
       /\ ~gameState[Host].players[q]

\* ---------------------------------------------------------------- C37
\* C37: a standard-mode tie-breaker round leaves a tiedPlayers list whose
\* members all were in the tiedPlayers list the round started with.
TiedCohortNeverGains ==
  [][(/\ last'.op = "resolve"
      /\ gameState[Host].isTieVote
      /\ ~gameState[Host].isRandomizeMode)
       => SeqToSet(gameState'[Host].tiedPlayers)
            \subseteq SeqToSet(gameState[Host].tiedPlayers)]_vars

\* A tie-breaker round of the standard mode ended in a further tie.
TiedCohortShrunk ==
  /\ last.op = "resolve"
  /\ gameState[Host].isTieVote
  /\ ~gameState[Host].isRandomizeMode
  /\ gameState[Host].tieBreakerVotes # <<>>
  /\ Len(gameState[Host].tiedPlayers) >= 2

WordsEliminationRecorded ==
  [][(/\ last'.op = "resolve"
      /\ gameState[Host].gameMode = "words"
      /\ gameState[Host].isRandomizeMode)
       => \A q \in SeqToSet(processRandomizeVotes(gameState[Host],
                                                  last'.votes).eliminatedPlayerIds) :
            Includes(gameState'[Host].eliminatedPlayers, q)]_vars

\* The words game ended by itself on a vote that selected a player who is
\* not in eliminatedPlayers.
WordsAutoEndWithoutElimination ==
  /\ last.op = "resolve"
  /\ gameState[Host].gameMode = "words"
  /\ gameState[Host].isRandomizeMode
  /\ gameState[Host].phase = "results"
  /\ \E q \in SeqToSet(roster) :
       /\ Cardinality({v \in DOMAIN last.votes : q \in last.votes[v]}) * 2
            > Cardinality(DOMAIN last.votes)
       /\ ~Includes(gameState[Host].eliminatedPlayers, q)

\* ---------------------------------------------------------------- C40
\* C40: play again invoked by a participant who is not the host leaves that
\* participant's game state unchanged.
HostOnlyActionRefused ==
  [][(last'.op = "playAgain" /\ last'.by # Host)
       => gameState'[last'.by] = gameState[last'.by]]_vars

\* A guest on the results screen invoked play again and its own state is
\* back in the lobby phase with the round's fields cleared, on the results
\* screen.
GuestPlayedAgain ==
  /\ last.op = "playAgain"
  /\ last.by # Host
  /\ gameState[last.by].phase = "lobby"
  /\ gameState[last.by].playerRoles = EmptyMap
  /\ currentScreen[last.by] = "results"

====
